---- MODULE Spec2Model ----
(***************************************************************************)
(* Route editor of the admin dashboard: the waypoint list held by          *)
(* ParcoursFormPage and edited through RouteMapEditor (map click, Undo,    *)
(* Clear All), the distance RouteMapEditor shows at each render, and the   *)
(* GeoJSON LineString text the form page writes on submit and reads back   *)
(* when a stored route is opened.                                          *)
(*                                                                         *)
(* Numbers.  A coordinate is an integer count of 1e-5 degrees, so the      *)
(* click tolerance 0.0001 degrees is 10 units.  Coordinates of the model   *)
(* are chosen so that no two of them lie at exactly the tolerance, where   *)
(* the outcome of the floating-point comparison depends on rounding        *)
(* (48.8567 - 48.8566 is 0.0000999999999962 in double arithmetic).         *)
(***************************************************************************)
EXTENDS Integers, Sequences, FiniteSets, TLC

VARIABLES
    waypoints,      \* ParcoursFormPage state `waypoints`, the prop of the editor
    fetchingData,   \* ParcoursFormPage state `fetchingData`
    record,         \* the route the page was opened on and what the backend holds of it
    mounted,        \* RouteMapEditor state `mounted`
    page,           \* "form" while ParcoursFormPage is shown, "list" once it has navigated away
    toast,          \* the last toast raised
    shown,          \* what the last render of RouteMapEditor displays
    prevWaypoints,  \* the list the last handler ran on
    lastOp,         \* the last handler that ran, with its input
    codec,          \* the serialization under test (SpecCodec)
    loading,        \* ParcoursFormPage state `loading`: a save request is in flight
    formData,       \* the fields of the form that onSubmit receives
    request,        \* the last request onSubmit has sent to the backend
    map,            \* the SimpleMap component: props, state, canvas (SpecMap)
    auth,           \* the DashboardLayout component and local storage (SpecAuth)
    search,         \* the search input of ServerDataTable and its timers (SpecSearch)
    list,           \* ParcoursPage: rows, pagination meta, loading, requests (SpecList)
    strip           \* the page links of a pagination component (SpecStrip)

vars == <<waypoints, fetchingData, record, mounted, page, toast, shown,
          prevWaypoints, lastOp, codec, loading, formData, request, map, auth,
          search, list, strip>>

\* The variables of the form page, of the editor and of the serialization.
formVars == <<waypoints, fetchingData, record, mounted, page, toast, shown,
              prevWaypoints, lastOp, codec, loading, formData, request>>

\* The variables of the list page, of its table and of the page links.
tableVars == <<search, list, strip>>

-----------------------------------------------------------------------------
(* Bounds of the model *)

\* Clicks that would grow the list beyond this length are not explored.
MaxWaypoints == 3

\* The longest list the serialization is applied to.
MaxCodecLen == 2

-----------------------------------------------------------------------------
(* Coordinates *)

Pt(lat, lng) == [lat |-> lat, lng |-> lng]

\* (48.8566, 2.3522): the default map center of the editor.
P1 == Pt(4885660, 235220)
\* (48.8567, 2.3523): one tolerance north and one tolerance east of P1.
P2 == Pt(4885670, 235230)
\* (48.85664, 2.35226): within tolerance of P1 and of P2.
P3 == Pt(4885664, 235226)
\* (48.8606, 2.3376) and (48.8584, 2.3145): far from the others.
P4 == Pt(4886060, 233760)
P5 == Pt(4885840, 231450)

\* The positions a map click can report (e.latlng).
ClickPoints == {P1, P2, P3, P4, P5}

-----------------------------------------------------------------------------
(* MapClickHandler *)

\* The tolerance 0.0001 degrees, in coordinate units.
ToleranceUnits == 10

\* Near with a tolerance of 0.0002 degrees.
NearWide(wp, lat, lng) ==
    (wp.lat - lat) * (wp.lat - lat) + (wp.lng - lng) * (wp.lng - lng)
        < (2 * ToleranceUnits) * (2 * ToleranceUnits)

\* Near with a tolerance of 0.00005 degrees.
NearNarrow(wp, lat, lng) ==
    (wp.lat - lat) * (wp.lat - lat) + (wp.lng - lng) * (wp.lng - lng)
        < (ToleranceUnits \div 2) * (ToleranceUnits \div 2)

\* Math.sqrt(Math.pow(wp.lat - lat, 2) + Math.pow(wp.lng - lng, 2)) < 0.0001
\* The square root is monotone, so the comparison is made on the squares.
Near(wp, lat, lng) ==
    (wp.lat - lat) * (wp.lat - lat) + (wp.lng - lng) * (wp.lng - lng)
        < ToleranceUnits * ToleranceUnits

\* Array.prototype.findIndex: the least index whose element satisfies the
\* test, or -1.  Indices are those of the code (from 0).
RECURSIVE FindIndexFrom(_, _, _, _)
FindIndexFrom(arr, lat, lng, i) ==
    IF i >= Len(arr) THEN -1
    ELSE IF Near(arr[i + 1], lat, lng) THEN i
    ELSE FindIndexFrom(arr, lat, lng, i + 1)

\* findIndex searching from the end of the array (findLastIndex).
RECURSIVE FindLastIndexFrom(_, _, _, _)
FindLastIndexFrom(arr, lat, lng, i) ==
    IF i < 0 THEN -1
    ELSE IF Near(arr[i + 1], lat, lng) THEN i
    ELSE FindLastIndexFrom(arr, lat, lng, i - 1)

FindLastIndex(arr, lat, lng) == FindLastIndexFrom(arr, lat, lng, Len(arr) - 1)

FindIndex(arr, lat, lng) == FindIndexFrom(arr, lat, lng, 0)

-----------------------------------------------------------------------------
(* RouteMapEditor: the handlers *)

\* addWaypoint putting the new waypoint first: [{ lat, lng }, ...waypoints]
AddWaypointFront(arr, lat, lng) == <<Pt(lat, lng)>> \o arr

\* [...waypoints, { lat, lng }]
addWaypoint(arr, lat, lng) == Append(arr, Pt(lat, lng))

\* waypoints.filter((_, i) => i !== index)
RECURSIVE FilterNotIndex(_, _, _)
FilterNotIndex(arr, index, i) ==
    IF i >= Len(arr) THEN << >>
    ELSE IF i # index
         THEN <<arr[i + 1]>> \o FilterNotIndex(arr, index, i + 1)
         ELSE FilterNotIndex(arr, index, i + 1)

\* removeWaypoint filtering by value: every waypoint equal to the one at
\* index goes.
RemoveByValue(arr, index) == SelectSeq(arr, LAMBDA wp : wp # arr[index + 1])

\* removeWaypoint one position off: filter((_, i) => i !== index + 1)
RemoveOffByOne(arr, index) == FilterNotIndex(arr, index + 1, 0)

removeWaypoint(arr, index) == FilterNotIndex(arr, index, 0)

\* Array.prototype.slice(start, end) for start >= 0; a negative end counts
\* from the end of the array.
Slice(arr, start, end) ==
    LET e == IF end < 0 THEN (IF Len(arr) + end < 0 THEN 0 ELSE Len(arr) + end)
             ELSE (IF end > Len(arr) THEN Len(arr) ELSE end)
    IN  SubSeq(arr, start + 1, e)

\* undo dropping the first waypoint: waypoints.slice(1)
UndoFirstList(arr) == IF Len(arr) > 0 THEN Tail(arr) ELSE arr

\* undoLastWaypoint: onChange(waypoints.slice(0, -1)) when the list is not
\* empty, nothing otherwise.
UndoLastList(arr) == IF Len(arr) > 0 THEN Slice(arr, 0, -1) ELSE arr

\* clear all keeping the start point: waypoints.slice(0, 1)
ClearKeepStart(arr) == Slice(arr, 0, 1)

\* clearAllWaypoints: onChange([])
ClearAllList(arr) == << >>

-----------------------------------------------------------------------------
(* RouteMapEditor: calculateDistance *)

\* Fixed-point arithmetic.  Angles and the values of sin, cos and sqrt are
\* integers at scale 1e8; TLC's integers are 32 bits wide, so products are
\* taken by halves of four decimal digits.  Distances are integers at
\* scale 1e6 (one unit is 1e-6 km, a millimetre).  A distance is exact to
\* a few tenths of a metre, for waypoints at most 0.05 degrees apart; the
\* series of sin, sqrt(1 - a) and atan2 are cut where their terms fall
\* below the scale on that range.
Scale == 10 ^ 8
Half == 10 ^ 4

Abs(x) == IF x < 0 THEN -x ELSE x

\* Division rounding toward zero, so that odd functions stay odd.
TDiv(a, b) == IF a >= 0 THEN a \div b ELSE -((-a) \div b)

\* a * b at scale 1e8, for |a|, |b| below about 2e8.
Mul8(a, b) ==
    LET s  == IF (a < 0) = (b < 0) THEN 1 ELSE -1
        x  == Abs(a)
        y  == Abs(b)
        xh == x \div Half
        xl == x % Half
        yh == y \div Half
        yl == y % Half
    IN  s * (xh * yh + (xh * yl + xl * yh) \div Half + (xl * yl) \div Scale)

\* (deg * Math.PI) / 180 for deg in coordinate units, in radians at scale
\* 1e8: deg * 17.4532925.
ToRadians(deg) ==
    LET u == Abs(deg)
        r == u * 17 + ((u \div 1000) * 45329) \div 100
                    + ((u % 1000) * 45329) \div 100000
    IN  IF deg < 0 THEN -r ELSE r

\* Math.sin by its series x - x^3/6 + x^5/120 - ..., summed until the term
\* vanishes at scale 1e8.
RECURSIVE SinTerms(_, _, _)
SinTerms(x2, term, k) ==
    IF term = 0 \/ k > 19 THEN 0
    ELSE term + SinTerms(x2, -TDiv(Mul8(term, x2), (k + 1) * (k + 2)), k + 2)

Sin(x) == SinTerms(Mul8(x, x), x, 1)

\* Math.cos by its series 1 - x^2/2 + x^4/24 - ...
Cos(x) == SinTerms(Mul8(x, x), Scale, 0)

\* Math.sqrt of a value at scale 1e16, as a value at scale 1e8: the
\* integer square root.
RECURSIVE SqrtSearch(_, _, _)
SqrtSearch(n, lo, hi) ==
    IF lo >= hi THEN lo
    ELSE LET mid == (lo + hi + 1) \div 2
         IN  IF mid * mid <= n THEN SqrtSearch(n, mid, hi)
             ELSE SqrtSearch(n, lo, mid - 1)

Sqrt(a16) == SqrtSearch(a16, 0, 46340)

\* Math.sqrt(1 - a) for a at scale 1e16, at scale 1e8: 1 - a/2 (a is below
\* 2.2e-7, the next term a^2/8 is below 1e-14).
SqrtOneMinus(a16) == Scale - a16 \div (2 * Scale)

\* Math.atan2(y, x) for 0 <= y < x at scale 1e8: with t = y / x, the series
\* t - t^3/3.
Atan2(y, x) ==
    LET t  == y + (y * (Scale - x)) \div x
        t3 == Mul8(Mul8(t, t), t)
    IN  t - t3 \div 3

\* Earth's radius in km.
R == 6371

\* The body of the loop of calculateDistance: the Haversine distance of p1
\* and p2 at scale 1e6 (R * c).
Haversine(p1, p2) ==
    LET dLat == ToRadians(p2.lat - p1.lat)
        dLng == ToRadians(p2.lng - p1.lng)
        sLat == Sin(TDiv(dLat, 2))
        sLng == Sin(TDiv(dLng, 2))
        cc   == Mul8(Cos(ToRadians(p1.lat)), Cos(ToRadians(p2.lat)))
        s2   == sLng * sLng
        a    == sLat * sLat
                  + (s2 \div Half) * (cc \div Half)
                  + ((s2 \div Half) * (cc % Half) + (s2 % Half) * (cc \div Half))
                        \div Half
        c    == 2 * Atan2(Sqrt(a), SqrtOneMinus(a))
    IN  (R * c) \div 100

\* Number(totalDistance).toFixed(2): the distance rounded to 0.01 km, as a
\* count of hundredths of a km.
ToFixed2(total) == (total + 5000) \div 10000

\* The loop stopping one pair early: i < waypoints.length - 2
RECURSIVE DistanceLoopShort(_, _, _)
DistanceLoopShort(arr, i, totalDistance) ==
    IF i < Len(arr) - 2
    THEN DistanceLoopShort(arr, i + 1,
                           totalDistance + Haversine(arr[i + 1], arr[i + 2]))
    ELSE totalDistance

\* for (let i = 0; i < waypoints.length - 1; i++) totalDistance += R * c
RECURSIVE DistanceLoop(_, _, _)
DistanceLoop(arr, i, totalDistance) ==
    IF i < Len(arr) - 1
    THEN DistanceLoop(arr, i + 1, totalDistance + Haversine(arr[i + 1], arr[i + 2]))
    ELSE totalDistance

\* calculateDistance: the number 0 for fewer than two waypoints, otherwise
\* the string toFixed(2) makes of the sum.
\*   fixed   - TRUE when the result is the two-decimal string
\*   centiKm - its value in hundredths of a km
calculateDistance(arr) ==
    IF Len(arr) < 2 THEN [fixed |-> FALSE, centiKm |-> 0]
    ELSE [fixed |-> TRUE, centiKm |-> ToFixed2(DistanceLoop(arr, 0, 0))]

\* A render that shows the list of the render before (a memoized value
\* that is not recomputed).
RenderStale(isMounted, arr) ==
    IF ~isMounted THEN [loading |-> TRUE, count |-> 0,
                        distance |-> [fixed |-> FALSE, centiKm |-> 0]]
    ELSE [loading |-> FALSE, count |-> Len(waypoints),
          distance |-> calculateDistance(waypoints)]

\* What RouteMapEditor renders: the placeholder "Loading map..." until its
\* mount effect has run, then "Waypoints: n | Distance: d km".
Render(isMounted, arr) ==
    IF ~isMounted THEN [loading |-> TRUE, count |-> 0,
                        distance |-> [fixed |-> FALSE, centiKm |-> 0]]
    ELSE [loading |-> FALSE, count |-> Len(arr),
          distance |-> calculateDistance(arr)]

-----------------------------------------------------------------------------
(* JSON text *)

\* A JSON text is a sequence of tokens: one token per punctuation mark and
\* per character of a number, one token per string literal.
Digits == <<"0", "1", "2", "3", "4", "5", "6", "7", "8", "9">>
DigitSet == {Digits[i] : i \in 1..10}
DigitVal(ch) == CHOOSE d \in 0..9 : Digits[d + 1] = ch
StringTokens == {"\"type\"", "\"coordinates\"", "\"LineString\"", "\"Point\""}

\* JSON values.
JNull    == [t |-> "null", n |-> 0, s |-> "", a |-> << >>]
JNum(n)  == [t |-> "num", n |-> n, s |-> "", a |-> << >>]
JStr(s)  == [t |-> "str", n |-> 0, s |-> s, a |-> << >>]
JArr(a)  == [t |-> "arr", n |-> 0, s |-> "", a |-> a]
\* An object is the sequence of its members [k |-> key, v |-> value].
JObj(ms) == [t |-> "obj", n |-> 0, s |-> "", a |-> ms]

\* The decimal digits of a natural number.
RECURSIVE NatText(_)
NatText(k) == IF k < 10 THEN <<Digits[k + 1]>>
              ELSE NatText(k \div 10) \o <<Digits[(k % 10) + 1]>>

\* The digits of the fraction f / 10^width, without trailing zeros.
RECURSIVE FracText(_, _)
FracText(f, width) ==
    IF f = 0 THEN << >>
    ELSE LET unit == 10 ^ (width - 1)
         IN  <<Digits[(f \div unit) + 1]>> \o FracText((f % unit) * 10, width)

\* Number to string, as JSON.stringify writes a number: the shortest
\* decimal text that reads back as the same number.  A coordinate of n
\* units is the number n / 100000.
NumberText(n) ==
    LET m == Abs(n)
        f == m % 100000
    IN  (IF n < 0 THEN <<"-">> ELSE << >>)
        \o NatText(m \div 100000)
        \o (IF f = 0 THEN << >> ELSE <<".">> \o FracText(f, 5))

\* JSON.stringify of a value.
RECURSIVE Stringify(_), StringifyItems(_, _), StringifyMembers(_, _)
Stringify(v) ==
    CASE v.t = "null" -> <<"null">>
      [] v.t = "num"  -> NumberText(v.n)
      [] v.t = "str"  -> <<"\"" \o v.s \o "\"">>
      [] v.t = "arr"  -> <<"[">> \o StringifyItems(v.a, 1) \o <<"]">>
      [] v.t = "obj"  -> <<"{">> \o StringifyMembers(v.a, 1) \o <<"}">>

StringifyItems(a, i) ==
    IF i > Len(a) THEN << >>
    ELSE (IF i > 1 THEN <<",">> ELSE << >>)
         \o Stringify(a[i]) \o StringifyItems(a, i + 1)

StringifyMembers(ms, i) ==
    IF i > Len(ms) THEN << >>
    ELSE (IF i > 1 THEN <<",">> ELSE << >>)
         \o <<"\"" \o ms[i].k \o "\"", ":">>
         \o Stringify(ms[i].v) \o StringifyMembers(ms, i + 1)

\* The result of reading a value from the front of a text: the value and
\* the text that follows it, or a failure (JSON.parse throws SyntaxError).
ParseOk(v, rest) == [ok |-> TRUE, v |-> v, rest |-> rest]
ParseFail == [ok |-> FALSE, v |-> JNull, rest |-> << >>]

\* The longest run of digits at the front of a text.
RECURSIVE DigitRun(_)
DigitRun(ts) ==
    IF ts # << >> /\ Head(ts) \in DigitSet
    THEN <<Head(ts)>> \o DigitRun(Tail(ts))
    ELSE << >>

\* The natural number a run of digits denotes.
RECURSIVE NatOfDigits(_, _)
NatOfDigits(ds, acc) ==
    IF ds = << >> THEN acc
    ELSE NatOfDigits(Tail(ds), acc * 10 + DigitVal(Head(ds)))

\* A fraction of up to five digits, in coordinate units.
FracOfDigits(ds) == NatOfDigits(ds, 0) * 10 ^ (5 - Len(ds))

\* A JSON number: -? int (. digits)?  An exponent and a fraction of more
\* than five digits are outside the texts of the model.
ParseNumber(ts) ==
    LET neg   == ts # << >> /\ Head(ts) = "-"
        ts1   == IF neg THEN Tail(ts) ELSE ts
        int   == DigitRun(ts1)
        ts2   == SubSeq(ts1, Len(int) + 1, Len(ts1))
        dot   == ts2 # << >> /\ Head(ts2) = "."
        frac  == IF dot THEN DigitRun(Tail(ts2)) ELSE << >>
        rest  == IF dot THEN SubSeq(ts2, Len(frac) + 2, Len(ts2)) ELSE ts2
        m     == NatOfDigits(int, 0) * 100000 + FracOfDigits(frac)
    IN  IF \/ int = << >>
           \/ (Len(int) > 1 /\ Head(int) = "0")
           \/ (dot /\ frac = << >>)
           \/ Len(frac) > 5
        THEN ParseFail
        ELSE ParseOk(JNum(IF neg THEN -m ELSE m), rest)

\* The text between the quotes of a string literal of the model.
Unquote(tok) ==
    CASE tok = "\"type\""        -> "type"
      [] tok = "\"coordinates\"" -> "coordinates"
      [] tok = "\"LineString\""  -> "LineString"
      [] tok = "\"Point\""       -> "Point"

\* JSON.parse, by recursive descent.
RECURSIVE ParseValue(_), ParseItems(_, _), ParseMembers(_, _)
ParseValue(ts) ==
    IF ts = << >> THEN ParseFail
    ELSE LET h == Head(ts)
         IN  CASE h = "null" -> ParseOk(JNull, Tail(ts))
               [] h \in StringTokens -> ParseOk(JStr(Unquote(h)), Tail(ts))
               [] h = "-" \/ h \in DigitSet -> ParseNumber(ts)
               [] h = "[" ->
                    IF Len(ts) > 1 /\ ts[2] = "]"
                    THEN ParseOk(JArr(<< >>), SubSeq(ts, 3, Len(ts)))
                    ELSE ParseItems(Tail(ts), << >>)
               [] h = "{" ->
                    IF Len(ts) > 1 /\ ts[2] = "}"
                    THEN ParseOk(JObj(<< >>), SubSeq(ts, 3, Len(ts)))
                    ELSE ParseMembers(Tail(ts), << >>)
               [] OTHER -> ParseFail

\* The items of an array after "[" or ",", up to and with the closing "]".
ParseItems(ts, acc) ==
    LET r == ParseValue(ts)
    IN  IF ~r.ok \/ r.rest = << >> THEN ParseFail
        ELSE IF Head(r.rest) = "," THEN ParseItems(Tail(r.rest), Append(acc, r.v))
        ELSE IF Head(r.rest) = "]" THEN ParseOk(JArr(Append(acc, r.v)), Tail(r.rest))
        ELSE ParseFail

\* The members of an object after "{" or ",", up to and with the closing "}".
ParseMembers(ts, acc) ==
    IF Len(ts) < 3 \/ ts[1] \notin StringTokens \/ ts[2] # ":" THEN ParseFail
    ELSE LET r == ParseValue(SubSeq(ts, 3, Len(ts)))
             m == [k |-> Unquote(ts[1]), v |-> r.v]
         IN  IF ~r.ok \/ r.rest = << >> THEN ParseFail
             ELSE IF Head(r.rest) = ","
                  THEN ParseMembers(Tail(r.rest), Append(acc, m))
             ELSE IF Head(r.rest) = "}"
                  THEN ParseOk(JObj(Append(acc, m)), Tail(r.rest))
             ELSE ParseFail

\* JSON.parse(text): the value, or a failure when the text is not one
\* JSON value.
JsonParse(text) ==
    LET r == ParseValue(text)
    IN  IF r.ok /\ r.rest = << >> THEN r ELSE ParseFail

-----------------------------------------------------------------------------
(* ParcoursFormPage: the LineString written on submit and read on fetch *)

\* The coordinates written latitude first: [wp.lat, wp.lng]
GeoJsonPathLatFirst(wps) ==
    JObj(<< [k |-> "type", v |-> JStr("LineString")],
            [k |-> "coordinates",
             v |-> JArr([i \in 1..Len(wps) |->
                            JArr(<<JNum(wps[i].lat), JNum(wps[i].lng)>>)])] >>)

\* const geoJsonPath = { type: "LineString",
\*                       coordinates: waypoints.map((wp) => [wp.lng, wp.lat]) }
GeoJsonPath(wps) ==
    JObj(<< [k |-> "type", v |-> JStr("LineString")],
            [k |-> "coordinates",
             v |-> JArr([i \in 1..Len(wps) |->
                            JArr(<<JNum(wps[i].lng), JNum(wps[i].lat)>>)])] >>)

\* geoJsonPath: JSON.stringify(geoJsonPath)
EncodePath(wps) == Stringify(GeoJsonPath(wps))

\* obj.key: the value of the last member of that name, JNull when there is
\* none (undefined) or obj is no object.
RECURSIVE MemberFrom(_, _, _)
MemberFrom(ms, key, i) ==
    IF i < 1 THEN JNull
    ELSE IF ms[i].k = key THEN ms[i].v
    ELSE MemberFrom(ms, key, i - 1)

Member(obj, key) ==
    IF obj.t = "obj" THEN MemberFrom(obj.a, key, Len(obj.a)) ELSE JNull

\* JavaScript truthiness of a value.
Truthy(v) ==
    CASE v.t = "null" -> FALSE
      [] v.t = "num"  -> v.n # 0
      [] v.t = "str"  -> v.s # ""
      [] OTHER        -> TRUE

\* The coordinates read latitude first: { lat: coord[0], lng: coord[1] }
CoordToWaypointLatFirst(coord) == Pt(coord.a[1].n, coord.a[2].n)

\* (coord) => ({ lng: coord[0], lat: coord[1] }), for coord an array of
\* at least two numbers (the texts of the model hold no other item).
CoordToWaypoint(coord) == Pt(coord.a[2].n, coord.a[1].n)

\* The inner try block of fetchParcoursData on data.geoJsonPath:
\*   set   - TRUE when setWaypoints was called
\*   value - the list it was called with
\*   threw - TRUE when the block threw and the catch logged the error
DecodePath(text) ==
    LET r       == JsonParse(text)
        geoJson == r.v
        coords  == Member(geoJson, "coordinates")
        none    == [set |-> FALSE, value |-> << >>, threw |-> FALSE]
        thrown  == [set |-> FALSE, value |-> << >>, threw |-> TRUE]
    IN  IF ~r.ok THEN thrown
        ELSE IF geoJson.t = "null" THEN thrown
        ELSE IF ~(Member(geoJson, "type") = JStr("LineString") /\ Truthy(coords))
             THEN none
        ELSE IF coords.t # "arr" THEN thrown
        ELSE IF \E i \in 1..Len(coords.a) : coords.a[i].t = "null" THEN thrown
        ELSE [set |-> TRUE,
              value |-> [i \in 1..Len(coords.a) |-> CoordToWaypoint(coords.a[i])],
              threw |-> FALSE]

\* parseFloat of a decimal text.
ParseFloat(text) == ParseNumber(text).v.n

\* The else branch of fetchParcoursData: the list made of the stored start
\* point and, when there is one, the stored end point.  An absent field
\* is the empty text.
FallbackWaypoints(data) ==
    LET start == <<Pt(ParseFloat(data.startingPointLat),
                      ParseFloat(data.startingPointLon))>>
    IN  IF data.endPointLat # << >> /\ data.endPointLon # << >>
        THEN Append(start, Pt(ParseFloat(data.endPointLat),
                              ParseFloat(data.endPointLon)))
        ELSE start

\* The waypoints after fetchParcoursData has read the response `data`.
FetchedWaypoints(data, current) ==
    IF data.geoJsonPath # << >>
    THEN LET d == DecodePath(data.geoJsonPath)
         IN  IF d.set THEN d.value ELSE current
    ELSE IF data.startingPointLat # << >> /\ data.startingPointLon # << >>
         THEN FallbackWaypoints(data)
    ELSE current

-----------------------------------------------------------------------------
(* The routes the page can be opened on *)

NoText == << >>

\* The create page: no route id, nothing to fetch.
NewRoute ==
    [isEdit |-> FALSE, geoJsonPath |-> NoText, distanceKm |-> NoText,
     startingPointLat |-> NoText, startingPointLon |-> NoText,
     endPointLat |-> NoText, endPointLon |-> NoText]

\* The distance a stored route was saved with, as the backend returns it:
\* the decimal text "8.5".
StoredDistance == <<"8", ".", "5">>

\* A stored route saved with the path `wps` (non-empty).
StoredPath(wps) ==
    [isEdit |-> TRUE, geoJsonPath |-> EncodePath(wps),
     distanceKm |-> StoredDistance,
     startingPointLat |-> NumberText(wps[1].lat),
     startingPointLon |-> NumberText(wps[1].lng),
     endPointLat |-> NumberText(wps[Len(wps)].lat),
     endPointLon |-> NumberText(wps[Len(wps)].lng)]

\* A stored route without a path, with a start point and maybe an end point.
StoredEnds(start, end) ==
    [isEdit |-> TRUE, geoJsonPath |-> NoText, distanceKm |-> StoredDistance,
     startingPointLat |-> NumberText(start.lat),
     startingPointLon |-> NumberText(start.lng),
     endPointLat |-> IF end = << >> THEN NoText ELSE NumberText(end[1].lat),
     endPointLon |-> IF end = << >> THEN NoText ELSE NumberText(end[1].lng)]

Routes ==
    { NewRoute,
      StoredPath(<<P1, P3, P4>>),
      StoredPath(<<P4, P1, P4>>),
      StoredPath(<<P5>>),
      StoredEnds(P5, <<P2>>),
      StoredEnds(P4, << >>) }

-----------------------------------------------------------------------------
(* The pages as a state machine *)

NoCodec == [phase |-> "off", input |-> << >>, text |-> << >>, output |-> << >>]

\* No request in flight.
NoRequest == [method |-> "none", payload |-> << >>]

\* The form before any field is filled in.  distanceKm is the number of
\* the "Distance (km)" field in units of 1e-5 km; 0 stands for a field that
\* holds no positive number, which the schema rejects.
EmptyForm == [distanceKm |-> 0]

\* SimpleMap and DashboardLayout are not part of the form page.
NoMap == [phase |-> "off"]
NoAuth == [phase |-> "off"]

\* Neither are the list page, its table and the page links.
NoSearch == [phase |-> "off"]
NoList == [phase |-> "off"]
NoStrip == [phase |-> "off"]

Op(kind, lat, lng, index) == [kind |-> kind, lat |-> lat, lng |-> lng, index |-> index]

Init ==
    /\ record \in Routes
    /\ waypoints = << >>
    /\ fetchingData = record.isEdit
    /\ mounted = FALSE
    /\ page = "form"
    /\ toast = "none"
    /\ shown = Render(FALSE, << >>)
    /\ prevWaypoints = << >>
    /\ lastOp = Op("init", 0, 0, -1)
    /\ codec = NoCodec
    /\ loading = FALSE
    /\ formData = EmptyForm
    /\ request = NoRequest
    /\ map = NoMap
    /\ auth = NoAuth
    /\ search = NoSearch
    /\ list = NoList
    /\ strip = NoStrip

\* fetchParcoursData, run by the effect of the edit page.  The request
\* either resolves with the stored route or is rejected.
fetchParcoursData(resolved) ==
    /\ page = "form"
    /\ fetchingData
    /\ IF resolved
       THEN /\ formData' = [formData EXCEPT !.distanceKm = ParseFloat(record.distanceKm)]
            /\ waypoints' = FetchedWaypoints(record, waypoints)
            /\ UNCHANGED <<page, toast>>
       ELSE /\ toast' = "Failed to load parcours data"
            /\ page' = "list"
            /\ UNCHANGED <<waypoints, formData>>
    /\ fetchingData' = FALSE
    /\ prevWaypoints' = waypoints
    /\ lastOp' = Op("fetch", 0, 0, -1)
    /\ UNCHANGED <<record, mounted, shown, codec, loading, request, map, auth, search, list, strip>>

\* The mount effect of RouteMapEditor: setMounted(true), and the render
\* that follows.
Mount ==
    /\ page = "form"
    /\ ~fetchingData
    /\ ~mounted
    /\ mounted' = TRUE
    /\ shown' = Render(TRUE, waypoints)
    /\ UNCHANGED <<waypoints, fetchingData, record, page, toast,
                   prevWaypoints, lastOp, codec, loading, formData, request,
                   map, auth, search, list, strip>>

\* The click handler of MapClickHandler on a click at (lat, lng), with the
\* addWaypoint or removeWaypoint it calls and the render that follows.
MapClickHandler(lat, lng) ==
    LET clickedIndex == FindIndex(waypoints, lat, lng)
    IN  /\ page = "form"
        /\ mounted
        /\ clickedIndex # -1 \/ Len(waypoints) < MaxWaypoints
        /\ waypoints' = IF clickedIndex # -1
                        THEN removeWaypoint(waypoints, clickedIndex)
                        ELSE addWaypoint(waypoints, lat, lng)
        /\ shown' = Render(TRUE, waypoints')
        /\ prevWaypoints' = waypoints
        /\ lastOp' = Op("click", lat, lng, clickedIndex)
        /\ UNCHANGED <<fetchingData, record, mounted, page, toast, codec,
                       loading, formData, request, map, auth, search, list, strip>>

\* undoLastWaypoint and the render that follows.  (The Undo button is
\* disabled on an empty list; the handler has its own guard and is modelled
\* as callable in every state.)
undoLastWaypoint ==
    /\ page = "form"
    /\ mounted
    /\ waypoints' = UndoLastList(waypoints)
    /\ shown' = Render(TRUE, waypoints')
    /\ prevWaypoints' = waypoints
    /\ lastOp' = Op("undo", 0, 0, -1)
    /\ UNCHANGED <<fetchingData, record, mounted, page, toast, codec,
                       loading, formData, request, map, auth, search, list, strip>>

\* clearAllWaypoints and the render that follows.
clearAllWaypoints ==
    /\ page = "form"
    /\ mounted
    /\ waypoints' = ClearAllList(waypoints)
    /\ shown' = Render(TRUE, waypoints')
    /\ prevWaypoints' = waypoints
    /\ lastOp' = Op("clear", 0, 0, -1)
    /\ UNCHANGED <<fetchingData, record, mounted, page, toast, codec,
                       loading, formData, request, map, auth, search, list, strip>>

Next ==
    \/ \E resolved \in BOOLEAN : fetchParcoursData(resolved)
    \/ Mount
    \/ \E c \in ClickPoints : MapClickHandler(c.lat, c.lng)
    \/ undoLastWaypoint
    \/ clearAllWaypoints

Spec == Init /\ [][Next]_vars

\* The create page alone: no route is fetched, the list starts empty and
\* changes by the handlers of the editor only.
InitCreate ==
    /\ Init
    /\ record = NewRoute

NextCreate ==
    \/ Mount
    \/ \E c \in ClickPoints : MapClickHandler(c.lat, c.lng)
    \/ undoLastWaypoint
    \/ clearAllWaypoints

SpecCreate == InitCreate /\ [][NextCreate]_vars

-----------------------------------------------------------------------------
(* ParcoursFormPage: saving the route *)

\* The values typed into the "Distance (km)" field, in units of 1e-5 km:
\* nothing, 0.5, 1.16 and 8.5.
FormDistances == {0, 50000, 116000, 850000}

\* The input registered as "distanceKm" with valueAsNumber.
EditDistance(d) ==
    /\ page = "form"
    /\ ~fetchingData
    /\ formData.distanceKm # d
    /\ formData' = [formData EXCEPT !.distanceKm = d]
    /\ prevWaypoints' = waypoints
    /\ lastOp' = Op("distance", 0, 0, -1)
    /\ UNCHANGED <<waypoints, fetchingData, record, mounted, page, toast, shown,
                   codec, loading, request, map, auth, search, list, strip>>

\* parcoursSchema: distanceKm is z.number().positive(); handleSubmit calls
\* onSubmit only with data the schema accepts.
SchemaAccepts(data) == data.distanceKm > 0

\* The payload with the end point taken from the first waypoint.
PayloadEndIsStart(data, wps) ==
    [startingPointLat |-> wps[1].lat,
     startingPointLon |-> wps[1].lng,
     endPointLat      |-> wps[1].lat,
     endPointLon      |-> wps[1].lng,
     geoJsonPath      |-> EncodePath(wps),
     distanceKm       |-> ParseFloat(NumberText(data.distanceKm))]

\* const payload = { ...data, startingPointLat: waypoints[0].lat, ... }
\* Of the fields of data only distanceKm is modelled.
Payload(data, wps) ==
    [startingPointLat |-> wps[1].lat,
     startingPointLon |-> wps[1].lng,
     endPointLat      |-> wps[Len(wps)].lat,
     endPointLon      |-> wps[Len(wps)].lng,
     geoJsonPath      |-> EncodePath(wps),
     distanceKm       |-> ParseFloat(NumberText(data.distanceKm))]

\* onSubmit without its check of the list: on an empty list waypoints[0]
\* is undefined, building the payload throws inside the try block, the
\* catch shows error.message and the finally resets loading.
onSubmitUnchecked ==
    /\ page = "form"
    /\ ~fetchingData
    /\ ~loading
    /\ SchemaAccepts(formData)
    /\ IF Len(waypoints) = 0
       THEN /\ toast' = "Cannot read properties of undefined (reading 'lat')"
            /\ UNCHANGED <<loading, request>>
       ELSE /\ loading' = TRUE
            /\ request' = [method  |-> IF record.isEdit THEN "PUT" ELSE "POST",
                           payload |-> Payload(formData, waypoints)]
            /\ UNCHANGED toast
    /\ prevWaypoints' = waypoints
    /\ lastOp' = Op("submit", 0, 0, -1)
    /\ UNCHANGED <<waypoints, fetchingData, record, mounted, page, shown,
                   codec, formData, map, auth, search, list, strip>>

\* onSubmit up to its await: the list is checked, the payload is built
\* and api.put (edit page) or api.post (create page) is called.  The
\* submit button is disabled while loading.
onSubmit ==
    /\ page = "form"
    /\ ~fetchingData
    /\ ~loading
    /\ SchemaAccepts(formData)
    /\ IF Len(waypoints) = 0
       THEN /\ toast' = "Please add at least a start point on the map"
            /\ UNCHANGED <<loading, request>>
       ELSE /\ loading' = TRUE
            /\ request' = [method  |-> IF record.isEdit THEN "PUT" ELSE "POST",
                           payload |-> Payload(formData, waypoints)]
            /\ UNCHANGED toast
    /\ prevWaypoints' = waypoints
    /\ lastOp' = Op("submit", 0, 0, -1)
    /\ UNCHANGED <<waypoints, fetchingData, record, mounted, page, shown,
                   codec, formData, map, auth, search, list, strip>>

\* onSubmit after its await: the request has succeeded (success toast,
\* router.push to the list) or failed (error toast), and loading is reset.
onSubmitSettled(ok) ==
    /\ page = "form"
    /\ loading
    /\ IF ok
       THEN /\ toast' = IF record.isEdit THEN "Parcours updated successfully"
                                         ELSE "Parcours created successfully"
            /\ page' = "list"
       ELSE /\ toast' = "Failed to save parcours"
            /\ UNCHANGED page
    /\ loading' = FALSE
    /\ request' = NoRequest
    /\ prevWaypoints' = waypoints
    /\ lastOp' = Op("settled", 0, 0, -1)
    /\ UNCHANGED <<waypoints, fetchingData, record, mounted, shown, codec,
                   formData, map, auth, search, list, strip>>

\* The form page with its save, on a map of two far-apart click positions.
SubmitClickPoints == {P1, P4}

SubmitRoutes == {NewRoute, StoredPath(<<P1, P3, P4>>), StoredEnds(P4, << >>)}

InitSubmit ==
    /\ Init
    /\ record \in SubmitRoutes

NextSubmit ==
    \/ \E resolved \in BOOLEAN : fetchParcoursData(resolved)
    \/ Mount
    \/ \E c \in SubmitClickPoints : MapClickHandler(c.lat, c.lng)
    \/ undoLastWaypoint
    \/ clearAllWaypoints
    \/ \E d \in FormDistances : EditDistance(d)
    \/ onSubmit
    \/ \E ok \in BOOLEAN : onSubmitSettled(ok)

SpecSubmit == InitSubmit /\ [][NextSubmit]_vars

-----------------------------------------------------------------------------
(* The serialization on its own: encode on submit, decode on fetch *)

\* Waypoints over the whole range of latitudes and longitudes: whole
\* degrees, the extremes, zero, negative fractions, trailing zeros.
CodecPoints ==
    { Pt(100000, 200000),        \* (1, 2)
      Pt(300000, 400000),        \* (3, 4)
      Pt(-9000000, -18000000),   \* (-90, -180)
      Pt(9000000, 18000000),     \* (90, 180)
      Pt(0, 0),
      P1,                        \* (48.8566, 2.3522)
      Pt(-1, 50000),             \* (-0.00001, 0.5)
      Pt(1005000, -10000) }      \* (10.05, -0.1)

\* The lists of at most n elements of S.
ListsUpTo(S, n) == UNION {[1..k -> S] : k \in 0..n}

InitCodec ==
    /\ codec \in {[phase |-> "input", input |-> l, text |-> << >>, output |-> << >>] :
                    l \in ListsUpTo(CodecPoints, MaxCodecLen)}
    /\ record = NewRoute
    /\ waypoints = << >>
    /\ fetchingData = FALSE
    /\ mounted = FALSE
    /\ page = "list"
    /\ toast = "none"
    /\ shown = Render(FALSE, << >>)
    /\ prevWaypoints = << >>
    /\ lastOp = Op("init", 0, 0, -1)
    /\ loading = FALSE
    /\ formData = EmptyForm
    /\ request = NoRequest
    /\ map = NoMap
    /\ auth = NoAuth
    /\ search = NoSearch
    /\ list = NoList
    /\ strip = NoStrip

\* onSubmit's serialization of the list: JSON.stringify(geoJsonPath).
CodecEncode ==
    /\ codec.phase = "input"
    /\ codec' = [codec EXCEPT !.phase = "encoded", !.text = EncodePath(codec.input)]
    /\ UNCHANGED <<waypoints, fetchingData, record, mounted, page, toast,
                   shown, prevWaypoints, lastOp, loading, formData, request,
                   map, auth, search, list, strip>>

\* fetchParcoursData's reading of that text: the list setWaypoints is
\* called with.
CodecDecode ==
    /\ codec.phase = "encoded"
    /\ LET d == DecodePath(codec.text)
       IN  codec' = [codec EXCEPT !.phase = IF d.set THEN "decoded" ELSE "failed",
                                  !.output = d.value]
    /\ UNCHANGED <<waypoints, fetchingData, record, mounted, page, toast,
                   shown, prevWaypoints, lastOp, loading, formData, request,
                   map, auth, search, list, strip>>

NextCodec == CodecEncode \/ CodecDecode

SpecCodec == InitCodec /\ [][NextCodec]_vars

-----------------------------------------------------------------------------
(* SimpleMap: the values of JavaScript the effect computes with *)

\* undefined, next to the JSON values.
JUndefined == [t |-> "undefined", n |-> 0, s |-> "", a |-> << >>]

\* A number of the effect: NaN, or a count of 1e-5 degrees.
NaN == [nan |-> TRUE, n |-> 0]
Num(n) == [nan |-> FALSE, n |-> n]

\* The first two characters of the strings of the model.
CharAt(str, i) ==
    CASE str = "type"        -> IF i = 0 THEN "t" ELSE "y"
      [] str = "coordinates" -> IF i = 0 THEN "c" ELSE "o"
      [] str = "LineString"  -> IF i = 0 THEN "L" ELSE "i"
      [] str = "Point"       -> IF i = 0 THEN "P" ELSE "o"
      [] OTHER               -> ""

\* coord[i] for i in {0, 1} and coord neither null nor undefined: the
\* element of an array, the character of a string, undefined on a number
\* and on an object (no object of the model has the key "0" or "1").
ElementAt(coord, i) ==
    CASE coord.t = "arr" -> IF i < Len(coord.a) THEN coord.a[i + 1] ELSE JUndefined
      [] coord.t = "str" -> IF CharAt(coord.s, i) = "" THEN JUndefined
                            ELSE JStr(CharAt(coord.s, i))
      [] OTHER           -> JUndefined

\* ToNumber, as Math.min, Math.max and the operator - apply it: null is
\* 0, undefined is NaN, a string of letters is NaN, an array goes through
\* its text ([] is 0, [x] is the number of x, a longer one is NaN), an
\* object is NaN.
RECURSIVE ToNumber(_)
ToNumber(v) ==
    CASE v.t = "num"  -> Num(v.n)
      [] v.t = "null" -> Num(0)
      [] v.t = "str"  -> IF v.s = "" THEN Num(0) ELSE NaN
      [] v.t = "arr"  -> IF Len(v.a) = 0 THEN Num(0)
                         ELSE IF Len(v.a) = 1 /\ v.a[1].t # "undefined"
                              THEN ToNumber(v.a[1])
                         ELSE NaN
      [] OTHER        -> NaN

\* Math.min(...values) and Math.max(...values) of a non-empty list: NaN as
\* soon as one value is NaN.
RECURSIVE MathMin(_), MathMax(_)
MathMin(values) ==
    LET h == ToNumber(Head(values))
    IN  IF Len(values) = 1 THEN h
        ELSE LET r == MathMin(Tail(values))
             IN  IF h.nan \/ r.nan THEN NaN
                 ELSE IF h.n <= r.n THEN h ELSE r

MathMax(values) ==
    LET h == ToNumber(Head(values))
    IN  IF Len(values) = 1 THEN h
        ELSE LET r == MathMax(Tail(values))
             IN  IF h.nan \/ r.nan THEN NaN
                 ELSE IF h.n >= r.n THEN h ELSE r

\* Math.max and Math.min of two integers.
MathMaxInt(a, b) == IF a >= b THEN a ELSE b
MathMinInt(a, b) == IF a <= b THEN a ELSE b

\* The range that stands in for an empty one: 0.01 degrees.
DefaultRange == 1000

\* max - min || 0.01: the difference, or 0.01 degrees (1000 units) when
\* the difference is 0 or NaN.
RangeOrDefault(max, min) ==
    IF max.nan \/ min.nan \/ max.n - min.n = 0 THEN DefaultRange
    ELSE max.n - min.n

-----------------------------------------------------------------------------
(* SimpleMap: the effect that draws the canvas *)

\* <canvas width={800} height={500}>
CanvasWidth == 800
CanvasHeight == 500

\* The most arguments a call can take by spreading an array; beyond it the
\* engine throws RangeError.  The limit of an engine is of the order of
\* 1e5; the model scales it down with its lists.
MaxSpread == 5

\* The most points of interest passed to the map.
MaxPois == 2

\* { lat, lon } as SimpleMap receives and builds it.
MapPt(lat, lon) == [lat |-> lat, lon |-> lon]

\* The props point p as an element of allPoints.
AsValues(p) == MapPt(JNum(p.lat), JNum(p.lon))

\* The try block on the geoJson prop after JSON.parse has given r (the
\* test of type and coordinates, coordinates.map, allPoints.push):
\*   points - geoJsonPoints after the block
\*   pushed - TRUE when the points were pushed onto allPoints
\*   caught - TRUE when the block threw and the catch logged the error
SimpleMapDecoded(text, r) ==
    LET parsed == r.v
        coords == Member(parsed, "coordinates")
        skip   == [points |-> << >>, pushed |-> FALSE, caught |-> FALSE]
        thrown == [points |-> << >>, pushed |-> FALSE, caught |-> TRUE]
        mapped == [i \in 1..Len(coords.a) |->
                      [lon |-> ElementAt(coords.a[i], 0),
                       lat |-> ElementAt(coords.a[i], 1)]]
    IN  IF text = << >> THEN skip
        ELSE IF ~r.ok THEN thrown
        ELSE IF parsed.t = "null" THEN thrown
        ELSE IF ~(Member(parsed, "type") = JStr("LineString") /\ Truthy(coords))
             THEN skip
        ELSE IF coords.t # "arr" THEN thrown
        ELSE IF \E i \in 1..Len(coords.a) : coords.a[i].t = "null" THEN thrown
        ELSE IF Len(mapped) > MaxSpread
             THEN [points |-> mapped, pushed |-> FALSE, caught |-> TRUE]
        ELSE [points |-> mapped, pushed |-> TRUE, caught |-> FALSE]

\* The try block on the geoJson prop, from const parsed = JSON.parse(geoJson).
SimpleMapDecode(text) == SimpleMapDecoded(text, JsonParse(text))

\* The list a sequence of points gives by .map((p) => p.lat) or p.lon.
Lats(ps) == [i \in 1..Len(ps) |-> ps[i].lat]
Lons(ps) == [i \in 1..Len(ps) |-> ps[i].lon]

\* The box of the first point alone (the start point).
BoundsOfFirst(allPoints) ==
    [minLat |-> ToNumber(allPoints[1].lat), maxLat |-> ToNumber(allPoints[1].lat),
     minLon |-> ToNumber(allPoints[1].lon), maxLon |-> ToNumber(allPoints[1].lon)]

\* minLat, maxLat, minLon, maxLon of allPoints (not empty).
Bounds(allPoints) ==
    [minLat |-> MathMin(Lats(allPoints)), maxLat |-> MathMax(Lats(allPoints)),
     minLon |-> MathMin(Lons(allPoints)), maxLon |-> MathMax(Lons(allPoints))]

\* A pixel coordinate: NaN, or size * num / den.
PxNaN == [nan |-> TRUE, num |-> 0, den |-> 1, size |-> 0]
Px(num, den, size) == [nan |-> FALSE, num |-> num, den |-> den, size |-> size]

\* toCanvas dividing by the range without its padding:
\* (lon - minLon + padding * lonRange) / lonRange.
ToCanvasUnpadded(lat, lon, box) ==
    LET latRange == RangeOrDefault(box.maxLat, box.minLat)
        lonRange == RangeOrDefault(box.maxLon, box.minLon)
        la == ToNumber(lat)
        lo == ToNumber(lon)
    IN  [x |-> IF lo.nan \/ box.minLon.nan THEN PxNaN
               ELSE Px(10 * (lo.n - box.minLon.n) + lonRange, 10 * lonRange,
                       CanvasWidth),
         y |-> IF la.nan \/ box.minLat.nan THEN PxNaN
               ELSE Px(10 * latRange - (10 * (la.n - box.minLat.n) + latRange),
                       10 * latRange, CanvasHeight)]

\* toCanvas without the vertical flip: y = normalizedLat * canvas.height.
ToCanvasUnflipped(lat, lon, box) ==
    LET latRange == RangeOrDefault(box.maxLat, box.minLat)
        lonRange == RangeOrDefault(box.maxLon, box.minLon)
        la == ToNumber(lat)
        lo == ToNumber(lon)
    IN  [x |-> IF lo.nan \/ box.minLon.nan THEN PxNaN
               ELSE Px(10 * (lo.n - box.minLon.n) + lonRange, 12 * lonRange,
                       CanvasWidth),
         y |-> IF la.nan \/ box.minLat.nan THEN PxNaN
               ELSE Px(10 * (la.n - box.minLat.n) + latRange,
                       12 * latRange, CanvasHeight)]

\* toCanvas(lat, lon) with padding = 0.1:
\*   x = (lon - minLon + padding * lonRange) / (lonRange * (1 + 2 * padding))
\*         * canvas.width
\*   y = canvas.height - (lat - minLat + padding * latRange)
\*         / (latRange * (1 + 2 * padding)) * canvas.height
\* Numerator and denominator are taken times 10, which makes them whole:
\* x = width * (10 (lon - minLon) + lonRange) / (12 lonRange), and
\* y = height * (12 latRange - (10 (lat - minLat) + latRange)) / (12 latRange).
ToCanvas(lat, lon, box) ==
    LET latRange == RangeOrDefault(box.maxLat, box.minLat)
        lonRange == RangeOrDefault(box.maxLon, box.minLon)
        la == ToNumber(lat)
        lo == ToNumber(lon)
    IN  [x |-> IF lo.nan \/ box.minLon.nan THEN PxNaN
               ELSE Px(10 * (lo.n - box.minLon.n) + lonRange, 12 * lonRange,
                       CanvasWidth),
         y |-> IF la.nan \/ box.minLat.nan THEN PxNaN
               ELSE Px(12 * latRange - (10 * (la.n - box.minLat.n) + latRange),
                       12 * latRange, CanvasHeight)]

\* One thing drawn: the vertex of a line (moveTo, lineTo) or a marker (arc).
Drawn(kind, p, box) == [kind |-> kind, at |-> ToCanvas(p.lat, p.lon, box)]

\* The body of the try block of the effect on the props, the geoJson block
\* having given d:
\*   geoJsonPoints, allPoints - the lists of that name
\*   caught - the catch of the geoJson block has run
\*   empty  - allPoints.length === 0
\*   threw  - an exception was raised outside the geoJson block:
\*            Math.min(...lats) on more values than a call can spread
\*   box    - minLat, maxLat, minLon, maxLon
\*   drawn  - what was drawn, in order: the route through the geoJson
\*            points when there are two or more, else the line from start
\*            to end when there is an end; the start marker; the end
\*            marker; the markers of the points
SimpleMapDrawn(props, d) ==
    LET start  == AsValues(props.startPoint)
        end    == [i \in 1..Len(props.endPoint) |-> AsValues(props.endPoint[i])]
        pois   == [i \in 1..Len(props.points) |-> AsValues(props.points[i])]
        all    == <<start>> \o end \o pois \o (IF d.pushed THEN d.points ELSE << >>)
        empty  == Len(all) = 0
        threw  == ~empty /\ Len(all) > MaxSpread
        box    == IF empty \/ threw
                  THEN [minLat |-> NaN, maxLat |-> NaN, minLon |-> NaN, maxLon |-> NaN]
                  ELSE Bounds(all)
        route  == IF Len(d.points) > 1
                  THEN [i \in 1..Len(d.points) |-> Drawn("route", d.points[i], box)]
                  ELSE IF end # << >>
                       THEN <<Drawn("line", start, box), Drawn("line", end[1], box)>>
                       ELSE << >>
        marks  == <<Drawn("start", start, box)>>
                  \o [i \in 1..Len(end) |-> Drawn("end", end[i], box)]
                  \o [i \in 1..Len(pois) |-> Drawn("poi", pois[i], box)]
    IN  [geoJsonPoints |-> d.points, allPoints |-> all, caught |-> d.caught,
         empty |-> empty, threw |-> threw, box |-> box,
         drawn |-> IF empty \/ threw THEN << >> ELSE route \o marks]

\* The body of the try block of the effect on the props.
SimpleMapDraw(props) == SimpleMapDrawn(props, SimpleMapDecode(props.geoJson))

\* The effect letting the exception of its body go.
OutcomeUncaught(d) ==
    [error   |-> IF d.empty THEN "No points to display" ELSE "none",
     escaped |-> d.threw]

\* How the effect ends: updateError("No points to display") and return,
\* updateError(null) after drawing, or the catch around the body with
\* updateError("Failed to render map").  No exception leaves the effect.
Outcome(d) ==
    [error   |-> IF d.threw THEN "Failed to render map"
                 ELSE IF d.empty THEN "No points to display"
                 ELSE "none",
     escaped |-> FALSE]

\* The points the map is given: (48.85, 2.35), (48.8606, 2.3376) and
\* (48.8584, 2.3145).
MapPoints == {MapPt(4885000, 235000), MapPt(4886060, 233760), MapPt(4885840, 231450)}

\* The text of an object with the given type and coordinates.
GeoText(type, coords) ==
    Stringify(JObj(<< [k |-> "type", v |-> JStr(type)],
                      [k |-> "coordinates", v |-> coords] >>))

\* The values of the geoJson prop: none, routes as onSubmit writes them
\* (of no, one, two, three and six points), and texts that are no such
\* route.
MapTexts ==
    { NoText,
      EncodePath(<< >>),
      EncodePath(<<P5>>),
      EncodePath(<<P1, P4>>),
      EncodePath(<<P4, P1, P5>>),
      EncodePath(<<P1, P2, P3, P4, P5, P1>>),
      <<"{", "\"type\"">>,                                     \* cut short
      <<"null">>,
      <<"4", "8">>,                                            \* a number
      GeoText("Point", JArr(<<JArr(<<JNum(235220), JNum(4885660)>>)>>)),
      Stringify(JObj(<< [k |-> "type", v |-> JStr("LineString")] >>)),
      GeoText("LineString", JNull),
      GeoText("LineString", JNum(235220)),
      GeoText("LineString", JStr("Point")),
      GeoText("LineString", JArr(<<JNull>>)),
      GeoText("LineString", JArr(<<JArr(<<JNum(235220)>>)>>)),   \* [[2.3522]]
      GeoText("LineString", JArr(<<JNum(235220), JNum(4885660)>>)),
      GeoText("LineString", JArr(<<JStr("Point")>>)) }

NoDraw ==
    [geoJsonPoints |-> << >>, allPoints |-> << >>, caught |-> FALSE,
     empty |-> FALSE, threw |-> FALSE,
     box |-> [minLat |-> NaN, maxLat |-> NaN, minLon |-> NaN, maxLon |-> NaN],
     drawn |-> << >>]

\* SimpleMap after its first render: no error, the canvas in the page,
\* the effect still to run.
\*   phase  - "render" when a render has left the effect to run
\*   canvas - the canvas element is in the page (canvasRef.current)
\*   drew   - the last run of the effect went through its try block
\*   last   - what that run computed and drew
InitMap ==
    /\ map \in { [phase |-> "render",
                  props |-> [startPoint |-> sp, endPoint |-> ep,
                             geoJson |-> g, points |-> ps],
                  error |-> "none", canvas |-> TRUE, escaped |-> FALSE,
                  drew |-> FALSE, last |-> NoDraw] :
                    sp \in MapPoints, ep \in ListsUpTo(MapPoints, 1),
                    g \in MapTexts, ps \in ListsUpTo(MapPoints, MaxPois) }
    /\ record = NewRoute
    /\ waypoints = << >>
    /\ fetchingData = FALSE
    /\ mounted = FALSE
    /\ page = "list"
    /\ toast = "none"
    /\ shown = Render(FALSE, << >>)
    /\ prevWaypoints = << >>
    /\ lastOp = Op("init", 0, 0, -1)
    /\ codec = NoCodec
    /\ loading = FALSE
    /\ formData = EmptyForm
    /\ request = NoRequest
    /\ auth = NoAuth
    /\ search = NoSearch
    /\ list = NoList
    /\ strip = NoStrip

\* The effect of SimpleMap, run after a render with changed props, and the
\* render that follows its updateError: with an error the placeholder is
\* shown in place of the canvas.  Without a canvas the effect returns at
\* once.
SimpleMapEffect ==
    /\ map.phase = "render"
    /\ IF ~map.canvas
       THEN map' = [map EXCEPT !.phase = "idle", !.drew = FALSE]
       ELSE LET d == SimpleMapDraw(map.props)
                o == Outcome(d)
            IN  map' = [map EXCEPT !.phase = "idle",
                                   !.error = o.error,
                                   !.canvas = (o.error = "none"),
                                   !.escaped = o.escaped,
                                   !.drew = TRUE,
                                   !.last = d]
    /\ UNCHANGED formVars
    /\ UNCHANGED auth
    /\ UNCHANGED tableVars

\* The parent passes another geoJson (the page has fetched the route
\* again, as after an upload): a render with the new prop.
SimpleMapGeoJson(text) ==
    /\ map.phase = "idle"
    /\ map.props.geoJson # text
    /\ map' = [map EXCEPT !.phase = "render", !.props.geoJson = text]
    /\ UNCHANGED formVars
    /\ UNCHANGED auth
    /\ UNCHANGED tableVars

NextMap ==
    \/ SimpleMapEffect
    \/ \E text \in MapTexts : SimpleMapGeoJson(text)

SpecMap == InitMap /\ [][NextMap]_vars

-----------------------------------------------------------------------------
(* DashboardLayout: the guard of the dashboard routes *)

\* localStorage.getItem gives null for a key that is not stored.
Absent == "absent"

\* What localStorage can hold under "token" and under "user".
Tokens == {Absent, "", "jwt"}
UserTexts ==
    {Absent, "", "null", "{", "{username:admin,email:admin@histo.fr}",
     "{username:guide,email:guide@histo.fr}"}

\* !x for a value read from localStorage: null and "" are falsy.
Not(x) == x = Absent \/ x = ""

NoUser == [username |-> "", email |-> ""]

\* JSON.parse(storedUser):
\*   threw - the text is no JSON (SyntaxError)
\*   null  - the text is "null", or the argument was null
\*   user  - the object parsed
ParseUser(text) ==
    CASE text = "{username:admin,email:admin@histo.fr}" ->
            [threw |-> FALSE, null |-> FALSE,
             user |-> [username |-> "admin", email |-> "admin@histo.fr"]]
      [] text = "{username:guide,email:guide@histo.fr}" ->
            [threw |-> FALSE, null |-> FALSE,
             user |-> [username |-> "guide", email |-> "guide@histo.fr"]]
      [] text = "null" \/ text = Absent ->
            [threw |-> FALSE, null |-> TRUE, user |-> NoUser]
      [] OTHER ->
            [threw |-> TRUE, null |-> TRUE, user |-> NoUser]

\* The sidebar links.
DashboardRoutes ==
    {"/dashboard", "/dashboard/users", "/dashboard/parcours", "/dashboard/poi",
     "/dashboard/podcasts", "/dashboard/quizzes", "/dashboard/challenges",
     "/dashboard/badges", "/dashboard/treasure-hunts", "/dashboard/rewards",
     "/dashboard/battalion"}

\* The test with "and" in place of "or": !token && !storedUser
NeedsLoginBoth(token, storedUser) == Not(token) /\ Not(storedUser)

\* if (!token || !storedUser)
NeedsLogin(token, storedUser) == Not(token) \/ Not(storedUser)

\* The layout mounted on a dashboard route, before its effect has run:
\*   phase    - "mounted" (effect to run), "shown" (effect done, layout in
\*              the page), "login" (navigated to /login), "crashed" (the
\*              effect threw)
\*   token, storedUser - localStorage
\*   user     - the state `user`; isNull when it is null
\*   location - the route
\*   content  - the layout renders its children (user is not null)
\*   op       - the last step, with the token and user text the effect read
InitAuth ==
    /\ auth \in { [phase |-> "mounted", token |-> t, storedUser |-> u,
                   user |-> [isNull |-> TRUE, value |-> NoUser],
                   location |-> l, content |-> FALSE,
                   op |-> [kind |-> "mount", token |-> Absent, storedUser |-> Absent]] :
                     t \in Tokens, u \in UserTexts, l \in DashboardRoutes }
    /\ record = NewRoute
    /\ waypoints = << >>
    /\ fetchingData = FALSE
    /\ mounted = FALSE
    /\ page = "list"
    /\ toast = "none"
    /\ shown = Render(FALSE, << >>)
    /\ prevWaypoints = << >>
    /\ lastOp = Op("init", 0, 0, -1)
    /\ codec = NoCodec
    /\ loading = FALSE
    /\ formData = EmptyForm
    /\ request = NoRequest
    /\ map = NoMap
    /\ search = NoSearch
    /\ list = NoList
    /\ strip = NoStrip

\* The effect of DashboardLayout and the render that follows it.
DashboardLayoutEffect ==
    /\ auth.phase = "mounted"
    /\ LET token      == auth.token
           storedUser == auth.storedUser
           parsed     == ParseUser(storedUser)
           read       == [kind |-> "effect", token |-> token, storedUser |-> storedUser]
       IN  IF NeedsLogin(token, storedUser)
           THEN auth' = [auth EXCEPT !.phase = "login", !.location = "/login",
                                     !.op = read]
           ELSE IF parsed.threw
           THEN auth' = [auth EXCEPT !.phase = "crashed", !.op = read]
           ELSE auth' = [auth EXCEPT !.phase = "shown",
                                     !.user = [isNull |-> parsed.null,
                                               value |-> parsed.user],
                                     !.content = ~parsed.null,
                                     !.op = read]
    /\ UNCHANGED formVars
    /\ UNCHANGED map
    /\ UNCHANGED tableVars

\* handleLogout, on the Logout button of the sidebar.
handleLogout ==
    /\ auth.phase = "shown"
    /\ auth.content
    /\ auth' = [auth EXCEPT !.phase = "login", !.token = Absent,
                            !.storedUser = Absent, !.location = "/login",
                            !.user = [isNull |-> TRUE, value |-> NoUser],
                            !.content = FALSE,
                            !.op = [kind |-> "logout", token |-> auth.token,
                                    storedUser |-> auth.storedUser]]
    /\ UNCHANGED formVars
    /\ UNCHANGED map
    /\ UNCHANGED tableVars

\* A link of the sidebar: the route changes, the layout stays mounted.
SidebarLink(href) ==
    /\ auth.phase = "shown"
    /\ auth.content
    /\ auth.location # href
    /\ auth' = [auth EXCEPT !.location = href,
                            !.op = [kind |-> "link", token |-> auth.token,
                                    storedUser |-> auth.storedUser]]
    /\ UNCHANGED formVars
    /\ UNCHANGED map
    /\ UNCHANGED tableVars

\* The login page (not part of these sources): it stores the token and
\* the user.
Login ==
    /\ auth.phase = "login"
    /\ auth.token # "jwt" \/ auth.storedUser # "{username:admin,email:admin@histo.fr}"
    /\ auth' = [auth EXCEPT !.token = "jwt",
                            !.storedUser = "{username:admin,email:admin@histo.fr}",
                            !.op = [kind |-> "login", token |-> auth.token,
                                    storedUser |-> auth.storedUser]]
    /\ UNCHANGED formVars
    /\ UNCHANGED map
    /\ UNCHANGED tableVars

\* A dashboard route is opened from the login page: the layout mounts.
OpenDashboard(href) ==
    /\ auth.phase = "login"
    /\ auth' = [auth EXCEPT !.phase = "mounted", !.location = href,
                            !.user = [isNull |-> TRUE, value |-> NoUser],
                            !.content = FALSE,
                            !.op = [kind |-> "mount", token |-> Absent,
                                    storedUser |-> Absent]]
    /\ UNCHANGED formVars
    /\ UNCHANGED map
    /\ UNCHANGED tableVars

NextAuth ==
    \/ DashboardLayoutEffect
    \/ handleLogout
    \/ \E href \in DashboardRoutes : SidebarLink(href)
    \/ Login
    \/ \E href \in DashboardRoutes : OpenDashboard(href)

SpecAuth == InitAuth /\ [][NextAuth]_vars

-----------------------------------------------------------------------------
(* ServerDataTable: the search input *)

\* The form page is not shown.
FormOff ==
    /\ record = NewRoute
    /\ waypoints = << >>
    /\ fetchingData = FALSE
    /\ mounted = FALSE
    /\ page = "list"
    /\ toast = "none"
    /\ shown = Render(FALSE, << >>)
    /\ prevWaypoints = << >>
    /\ lastOp = Op("init", 0, 0, -1)
    /\ codec = NoCodec
    /\ loading = FALSE
    /\ formData = EmptyForm
    /\ request = NoRequest

\* Time is counted in units of 100 ms.  The delay of setTimeout in
\* handleSearch: 300 ms.
DebounceUnits == 3

\* The most changes of the input, and the time up to which they are made.
MaxKeys == 3
MaxClock == 7

\* The texts the input can hold.
SearchTexts == {"", "p", "pa"}

\* ServerDataTable rendered with searchKey and onSearch:
\*   searchValue - the state of that name
\*   timers      - the timeouts set and not yet run, in the order they were
\*                 set: the value, its due time, the change that set it
\*   keys        - the changes of the input so far: the value and the time
\*   calls       - the calls of onSearch so far: the value, the time, the
\*                 change whose timeout made the call
\*   now         - the time
InitSearch ==
    /\ search = [phase |-> "table", searchValue |-> "", timers |-> << >>,
                 keys |-> << >>, calls |-> << >>, now |-> 0]
    /\ FormOff
    /\ map = NoMap
    /\ auth = NoAuth
    /\ list = NoList
    /\ strip = NoStrip

\* handleSearch(value), called by onChange of the input: setSearchValue and
\* setTimeout.  The function it returns (clearTimeout of the timeout just
\* set) is dropped by onChange, so no timeout is ever cleared.
handleSearch(value) ==
    /\ search.phase = "table"
    /\ Len(search.keys) < MaxKeys
    /\ value # search.searchValue
    /\ search' = [search EXCEPT
                     !.searchValue = value,
                     !.timers = Append(@, [value |-> value,
                                           due   |-> search.now + DebounceUnits,
                                           key   |-> Len(search.keys) + 1]),
                     !.keys = Append(@, [value |-> value, at |-> search.now])]
    /\ UNCHANGED formVars
    /\ UNCHANGED <<map, auth, list, strip>>

\* The oldest timeout is due: its callback calls onSearch(value).
SearchTimeout ==
    /\ search.phase = "table"
    /\ search.timers # << >>
    /\ Head(search.timers).due <= search.now
    /\ search' = [search EXCEPT
                     !.timers = Tail(@),
                     !.calls = Append(@, [value |-> Head(search.timers).value,
                                          at    |-> search.now,
                                          key   |-> Head(search.timers).key])]
    /\ UNCHANGED formVars
    /\ UNCHANGED <<map, auth, list, strip>>

\* 100 ms pass; a timeout that is due runs first.
SearchTick ==
    /\ search.phase = "table"
    /\ search.now < MaxClock
    /\ \A i \in 1..Len(search.timers) : search.timers[i].due > search.now
    /\ search' = [search EXCEPT !.now = @ + 1]
    /\ UNCHANGED formVars
    /\ UNCHANGED <<map, auth, list, strip>>

NextSearch ==
    \/ \E value \in SearchTexts : handleSearch(value)
    \/ SearchTimeout
    \/ SearchTick

SpecSearch == InitSearch /\ [][NextSearch]_vars

-----------------------------------------------------------------------------
(* SmartPagination and DataTablePagination: the page links *)

\* The most pages of a list.
MaxPages == 9

\* Up to this many pages SmartPagination shows a link for each page.
SmartShowAll == 7

\* const maxPagesToShow = 5, of DataTablePagination.
maxPagesToShow == 5

\* An item of the strip: the link of a page, or an ellipsis.
PageLink(i, isActive) == [kind |-> "link", page |-> i, active |-> isActive]
PageEllipsis == [kind |-> "ellipsis", page |-> 0, active |-> FALSE]

\* The links of the pages from first to last, in order.
PageLinks(first, last, currentPage) ==
    [k \in 1..(last - first + 1) |-> PageLink(first + k - 1, first + k - 1 = currentPage)]

\* renderPageNumbers of SmartPagination with the first ellipsis from page 3
\* on: if (currentPage > 2).
SmartPageNumbersEarly(currentPage, totalPages) ==
    IF totalPages <= SmartShowAll
    THEN PageLinks(1, totalPages, currentPage)
    ELSE LET start == MathMaxInt(2, currentPage - 1)
             end   == MathMinInt(totalPages - 1, currentPage + 1)
         IN  <<PageLink(1, 1 = currentPage)>>
             \o (IF currentPage > 2 THEN <<PageEllipsis>> ELSE << >>)
             \o PageLinks(start, end, currentPage)
             \o (IF currentPage < totalPages - 2 THEN <<PageEllipsis>> ELSE << >>)
             \o <<PageLink(totalPages, totalPages = currentPage)>>

\* renderPageNumbers of SmartPagination.
SmartPageNumbers(currentPage, totalPages) ==
    IF totalPages <= SmartShowAll
    THEN PageLinks(1, totalPages, currentPage)
    ELSE LET start == MathMaxInt(2, currentPage - 1)
             end   == MathMinInt(totalPages - 1, currentPage + 1)
         IN  <<PageLink(1, 1 = currentPage)>>
             \o (IF currentPage > 3 THEN <<PageEllipsis>> ELSE << >>)
             \o PageLinks(start, end, currentPage)
             \o (IF currentPage < totalPages - 2 THEN <<PageEllipsis>> ELSE << >>)
             \o <<PageLink(totalPages, totalPages = currentPage)>>

\* The string '...' in the array of renderPageNumbers of
\* DataTablePagination, whose other elements are page numbers (from 1).
Dots == 0

\* pages.includes(i)
Includes(pages, i) == \E k \in 1..Len(pages) : pages[k] = i

\* for (let i = start; i <= end; i++) if (!pages.includes(i)) pages.push(i)
RECURSIVE PushRange(_, _, _)
PushRange(pages, i, end) ==
    IF i > end THEN pages
    ELSE PushRange(IF Includes(pages, i) THEN pages ELSE Append(pages, i),
                   i + 1, end)

\* if (!pages.includes(x)) pages.push(x)
PushNew(pages, x) == IF Includes(pages, x) THEN pages ELSE Append(pages, x)

\* renderPageNumbers of DataTablePagination: numbers and '...'.
DataTablePageNumbers(currentPage, totalPages) ==
    IF totalPages <= maxPagesToShow
    THEN [i \in 1..totalPages |-> i]
    ELSE LET first  == <<1>>
             dots1  == IF currentPage > 3 THEN Append(first, Dots) ELSE first
             start  == MathMaxInt(2, currentPage - 1)
             end    == MathMinInt(totalPages - 1, currentPage + 1)
             around == PushRange(dots1, start, end)
             dots2  == IF currentPage < totalPages - 2
                       THEN Append(around, Dots) ELSE around
         IN  PushNew(dots2, totalPages)

\* renderPageNumbers().map(...): PaginationEllipsis for '...', else a
\* PaginationLink with isActive={pageNum === page}.
DataTableItems(currentPage, totalPages) ==
    LET pages == DataTablePageNumbers(currentPage, totalPages)
    IN  [k \in 1..Len(pages) |->
            IF pages[k] = Dots THEN PageEllipsis
            ELSE PageLink(pages[k], pages[k] = currentPage)]

StripComponents == {"SmartPagination", "DataTablePagination"}

\* The items a component renders between Previous and Next.
StripItems(component, currentPage, totalPages) ==
    IF component = "SmartPagination"
    THEN SmartPageNumbers(currentPage, totalPages)
    ELSE DataTableItems(currentPage, totalPages)

NoClick == [kind |-> "none", called |-> FALSE, page |-> 0]

\* A pagination component given its props, before its render:
\*   items - what is rendered between Previous and Next
\*   click - the last click: whether it called onPageChange, and with what
\* Of the pages of the list only their number matters; hasNextPage and
\* hasPreviousPage are what the parent passes.
InitStrip ==
    /\ strip \in { [phase |-> "props", component |-> c,
                    currentPage |-> p, totalPages |-> t,
                    hasNextPage |-> n, hasPreviousPage |-> v,
                    items |-> << >>, click |-> NoClick] :
                      c \in StripComponents, t \in 2..MaxPages,
                      p \in 1..MaxPages, n \in BOOLEAN, v \in BOOLEAN }
    /\ strip.currentPage <= strip.totalPages
    /\ FormOff
    /\ map = NoMap
    /\ auth = NoAuth
    /\ search = NoSearch
    /\ list = NoList

\* The render of the component.
StripRender ==
    /\ strip.phase = "props"
    /\ strip' = [strip EXCEPT
                    !.phase = "shown",
                    !.items = StripItems(strip.component, strip.currentPage,
                                         strip.totalPages)]
    /\ UNCHANGED formVars
    /\ UNCHANGED <<map, auth, search, list>>

\* onClick of PaginationPrevious:
\* hasPreviousPage && onPageChange(currentPage - 1)
PaginationPrevious ==
    /\ strip.phase = "shown"
    /\ strip' = [strip EXCEPT
                    !.click = [kind   |-> "previous",
                               called |-> strip.hasPreviousPage,
                               page   |-> IF strip.hasPreviousPage
                                          THEN strip.currentPage - 1 ELSE 0]]
    /\ UNCHANGED formVars
    /\ UNCHANGED <<map, auth, search, list>>

\* onClick of PaginationNext: hasNextPage && onPageChange(currentPage + 1)
PaginationNext ==
    /\ strip.phase = "shown"
    /\ strip' = [strip EXCEPT
                    !.click = [kind   |-> "next",
                               called |-> strip.hasNextPage,
                               page   |-> IF strip.hasNextPage
                                          THEN strip.currentPage + 1 ELSE 0]]
    /\ UNCHANGED formVars
    /\ UNCHANGED <<map, auth, search, list>>

\* onClick of the PaginationLink at position k: onPageChange(i)
PaginationLink(k) ==
    /\ strip.phase = "shown"
    /\ k \in 1..Len(strip.items)
    /\ strip.items[k].kind = "link"
    /\ strip' = [strip EXCEPT
                    !.click = [kind |-> "link", called |-> TRUE,
                               page |-> strip.items[k].page]]
    /\ UNCHANGED formVars
    /\ UNCHANGED <<map, auth, search, list>>

\* The parent has fetched the page asked for and passes the new meta.
StripPageChange ==
    /\ strip.phase = "shown"
    /\ strip.click.called
    /\ strip.click.page \in 1..strip.totalPages
    /\ strip.click.page # strip.currentPage
    /\ strip' = [strip EXCEPT
                    !.phase = "props",
                    !.currentPage = strip.click.page,
                    !.hasNextPage = strip.click.page < strip.totalPages,
                    !.hasPreviousPage = strip.click.page > 1,
                    !.items = << >>,
                    !.click = NoClick]
    /\ UNCHANGED formVars
    /\ UNCHANGED <<map, auth, search, list>>

NextStrip ==
    \/ StripRender
    \/ PaginationPrevious
    \/ PaginationNext
    \/ \E k \in 1..MaxPages : PaginationLink(k)
    \/ StripPageChange

SpecStrip == InitStrip /\ [][NextStrip]_vars

-----------------------------------------------------------------------------
(* ParcoursPage: the paginated list *)

\* The most list requests sent, and the most rows deleted.
MaxRequests == 3
MaxDeletes == 1

\* The rows the backend holds at first.
ListTotal == 12

\* The page sizes chosen, of [5, 10, 20, 30, 40, 50].
PageSizes == {5, 10}

\* Math.ceil(total / limit), as the backend computes totalPages.
CeilDiv(total, limit) == (total + limit - 1) \div limit

\* response.data.meta for the request of a page, the backend holding
\* `total` rows.
Meta(pg, limit, total) ==
    [page |-> pg, limit |-> limit, total |-> total,
     totalPages |-> CeilDiv(total, limit),
     hasNextPage |-> pg < CeilDiv(total, limit),
     hasPreviousPage |-> pg > 1]

\* useState<PaginationMeta>({ page: 1, limit: 10, total: 0, ... })
InitialMeta ==
    [page |-> 1, limit |-> 10, total |-> 0, totalPages |-> 0,
     hasNextPage |-> FALSE, hasPreviousPage |-> FALSE]

\* The rows of a response: those of a page at a page size.  [] has
\* neither.
Rows(pg, limit) == [page |-> pg, limit |-> limit]
NoRows == [page |-> 0, limit |-> 0]

NoSettle == [kind |-> "none", seq |-> 0, metaBefore |-> InitialMeta]

\* ParcoursPage after its first render, its effect still to run:
\*   parcours, loading, paginationMeta - the states of those names
\*   toast    - the last toast raised
\*   inflight - the list requests sent and not settled, numbered in the
\*              order they were sent
\*   deleting - the delete requests not settled, each with the
\*              paginationMeta of the render its handler was made in
\*   issued   - the number of list requests sent
\*   deleted  - the number of rows deleted
\*   total    - the rows the backend holds
\*   rowsOf, metaOf - the request whose response set parcours and
\*              paginationMeta (0: none)
\*   result   - how the request sent last has ended
\*   last     - the handler or continuation that ran last
InitList ==
    /\ list = [phase |-> "mounting", parcours |-> NoRows, loading |-> TRUE,
               paginationMeta |-> InitialMeta, toast |-> "none",
               inflight |-> {}, deleting |-> {}, issued |-> 0, deleted |-> 0,
               total |-> ListTotal, rowsOf |-> 0, metaOf |-> 0,
               result |-> "none", last |-> NoSettle]
    /\ FormOff
    /\ map = NoMap
    /\ auth = NoAuth
    /\ search = NoSearch
    /\ strip = NoStrip

\* fetchParcours(page, limit) up to its await: setLoading(true) and the
\* request is sent.
fetchParcours(l, pg, limit) ==
    [l EXCEPT !.loading = TRUE,
              !.inflight = @ \cup {[seq |-> l.issued + 1, page |-> pg, limit |-> limit]},
              !.issued = @ + 1,
              !.result = "pending"]

\* The catch of fetchParcours leaving the rows as they are.
RejectedKeepsRows(l) ==
    [l EXCEPT !.toast = "Failed to fetch parcours",
              !.loading = FALSE]

\* fetchParcours after a rejected request: the catch (toast.error,
\* setParcours([])) and the finally (setLoading(false)).
Rejected(l) ==
    [l EXCEPT !.toast = "Failed to fetch parcours",
              !.parcours = NoRows,
              !.rowsOf = 0,
              !.loading = FALSE]

\* fetchParcours after a resolved request r: setParcours, setPaginationMeta
\* and the finally.
Resolved(l, r) ==
    [l EXCEPT !.parcours = Rows(r.page, r.limit),
              !.paginationMeta = Meta(r.page, r.limit, l.total),
              !.rowsOf = r.seq,
              !.metaOf = r.seq,
              !.loading = FALSE]

\* useEffect(() => { fetchParcours(1, 10) }, [])
ListMount ==
    /\ list.phase = "mounting"
    /\ list' = [fetchParcours(list, 1, 10) EXCEPT
                   !.phase = "page",
                   !.last = [NoSettle EXCEPT !.kind = "mount"]]
    /\ UNCHANGED formVars
    /\ UNCHANGED <<map, auth, search, strip>>

\* handlePageChange(page), from Previous (page - 1) or Next (page + 1) of
\* ServerDataTable; the buttons are disabled while loading and without a
\* previous or next page.
handlePageChange(pg) ==
    /\ list.phase = "page"
    /\ list.issued < MaxRequests
    /\ ~list.loading
    /\ \/ pg = list.paginationMeta.page - 1 /\ list.paginationMeta.hasPreviousPage
       \/ pg = list.paginationMeta.page + 1 /\ list.paginationMeta.hasNextPage
    /\ list' = [fetchParcours(list, pg, list.paginationMeta.limit) EXCEPT
                   !.last = [NoSettle EXCEPT !.kind = "page"]]
    /\ UNCHANGED formVars
    /\ UNCHANGED <<map, auth, search, strip>>

\* handlePageSizeChange(pageSize), from the select of ServerDataTable,
\* which is not disabled while loading.
handlePageSizeChange(pageSize) ==
    /\ list.phase = "page"
    /\ list.issued < MaxRequests
    /\ pageSize # list.paginationMeta.limit
    /\ list' = [fetchParcours(list, 1, pageSize) EXCEPT
                   !.last = [NoSettle EXCEPT !.kind = "size"]]
    /\ UNCHANGED formVars
    /\ UNCHANGED <<map, auth, search, strip>>

\* handleDelete(id) up to its await, the confirm accepted: the delete
\* request is sent.  The button is in a row, and rows are shown only
\* while not loading.
handleDelete ==
    /\ list.phase = "page"
    /\ ~list.loading
    /\ list.parcours # NoRows
    /\ list.total > 0
    /\ list.deleted + Cardinality(list.deleting) < MaxDeletes
    /\ list' = [list EXCEPT
                   !.deleting = @ \cup {[page  |-> list.paginationMeta.page,
                                         limit |-> list.paginationMeta.limit]},
                   !.last = [NoSettle EXCEPT !.kind = "delete"]]
    /\ UNCHANGED formVars
    /\ UNCHANGED <<map, auth, search, strip>>

\* handleDelete after its await: the success toast and the refresh with
\* the page and limit of its render, or the error toast.
handleDeleteSettled(d, ok) ==
    /\ list.phase = "page"
    /\ d \in list.deleting
    /\ ok => list.issued < MaxRequests
    /\ LET gone == [list EXCEPT !.deleting = @ \ {d}]
       IN  list' =
             IF ok
             THEN [fetchParcours([gone EXCEPT !.total = @ - 1,
                                              !.deleted = @ + 1,
                                              !.toast = "Parcours deleted successfully"],
                                 d.page, d.limit)
                     EXCEPT !.last = [NoSettle EXCEPT !.kind = "deleted"]]
             ELSE [gone EXCEPT !.toast = "Failed to delete parcours",
                               !.last = [NoSettle EXCEPT !.kind = "delete-failed"]]
    /\ UNCHANGED formVars
    /\ UNCHANGED <<map, auth, search, strip>>

\* fetchParcours after its await, for the request r: resolved or rejected.
fetchParcoursSettled(r, ok) ==
    /\ list.phase = "page"
    /\ r \in list.inflight
    /\ LET l == [list EXCEPT
                    !.inflight = @ \ {r},
                    !.result = IF r.seq = list.issued
                               THEN (IF ok THEN "ok" ELSE "failed") ELSE @,
                    !.last = [kind |-> IF ok THEN "fetch-ok" ELSE "fetch-failed",
                              seq |-> r.seq,
                              metaBefore |-> list.paginationMeta]]
       IN  list' = IF ok THEN Resolved(l, r) ELSE Rejected(l)
    /\ UNCHANGED formVars
    /\ UNCHANGED <<map, auth, search, strip>>

NextList ==
    \/ ListMount
    \/ \E pg \in 1..CeilDiv(ListTotal, 5) : handlePageChange(pg)
    \/ \E pageSize \in PageSizes : handlePageSizeChange(pageSize)
    \/ handleDelete
    \/ \E d \in list.deleting : \E ok \in BOOLEAN : handleDeleteSettled(d, ok)
    \/ \E r \in list.inflight : \E ok \in BOOLEAN : fetchParcoursSettled(r, ok)

SpecList == InitList /\ [][NextList]_vars

-----------------------------------------------------------------------------
(* Properties of the editor handlers *)

\* Euclidean distance in degree space below 0.0001, on the squares, in
\* coordinate units.
WithinTolerance(p, q) ==
    (p.lat - q.lat) * (p.lat - q.lat) + (p.lng - q.lng) * (p.lng - q.lng) < 100

\* The list L without its element at position k (from 1).
Without(L, k) == SubSeq(L, 1, k - 1) \o SubSeq(L, k + 1, Len(L))

\* The positions (from 1) of the waypoints of L within tolerance of c.
Matches(L, c) == {k \in 1..Len(L) : WithinTolerance(L[k], c)}

ClickedAt == Pt(lastOp.lat, lastOp.lng)

\* C1: a map click at c on the list L removes one waypoint and appends
\* nothing when some waypoint of L is within tolerance of c, and otherwise
\* appends c as the last element, every element of L keeping its index.
C1_ClickRemovesOrAppends ==
    lastOp.kind = "click" =>
        IF Matches(prevWaypoints, ClickedAt) # {}
        THEN \E k \in 1..Len(prevWaypoints) : waypoints = Without(prevWaypoints, k)
        ELSE /\ Len(waypoints) = Len(prevWaypoints) + 1
             /\ waypoints[Len(waypoints)] = ClickedAt
             /\ \A k \in 1..Len(prevWaypoints) : waypoints[k] = prevWaypoints[k]

\* A click near, but not on, a waypoint of a list of two or more has
\* removed it.
C1_Witness ==
    /\ lastOp.kind = "click"
    /\ Len(prevWaypoints) >= 2
    /\ Matches(prevWaypoints, ClickedAt) # {}
    /\ \A k \in 1..Len(prevWaypoints) : prevWaypoints[k] # ClickedAt
    /\ Len(waypoints) = Len(prevWaypoints) - 1

\* C2 as stated: from the empty list a click at (48.8566, 2.3522) gives
\* that one point, and a following click at (48.8567, 2.3523) gives the
\* empty list.
C2_SecondClickRemoves ==
    /\ (lastOp = Op("click", P1.lat, P1.lng, -1) /\ prevWaypoints = << >>)
            => waypoints = <<P1>>
    /\ (lastOp.kind = "click" /\ ClickedAt = P2 /\ prevWaypoints = <<P1>>)
            => waypoints = << >>

\* C2 amended: the second click is 0.000141 degrees from the first point,
\* outside the tolerance, and is appended: the list is then both points.
C2_SecondClickAppends ==
    /\ (lastOp.kind = "click" /\ ClickedAt = P1 /\ prevWaypoints = << >>)
            => waypoints = <<P1>>
    /\ (lastOp.kind = "click" /\ ClickedAt = P2 /\ prevWaypoints = <<P1>>)
            => waypoints = <<P1, P2>>

C2_Witness ==
    /\ lastOp.kind = "click"
    /\ ClickedAt = P2
    /\ prevWaypoints = <<P1>>
    /\ ~record.isEdit

\* C3: removing index i of a list of n waypoints gives n - 1 waypoints,
\* those below i unchanged and each one formerly at j > i now at j - 1.
C3_RemoveKeepsOrder ==
    (lastOp.kind = "click" /\ lastOp.index # -1) =>
        LET i == lastOp.index
            n == Len(prevWaypoints)
        IN  /\ 0 <= i /\ i < n
            /\ Len(waypoints) = n - 1
            /\ \A j \in 0..(i - 1) : waypoints[j + 1] = prevWaypoints[j + 1]
            /\ \A j \in (i + 1)..(n - 1) : waypoints[j] = prevWaypoints[j + 1]

\* The middle one of three waypoints has been removed.
C3_Witness ==
    /\ lastOp.kind = "click"
    /\ lastOp.index = 1
    /\ Len(prevWaypoints) = 3
    /\ Len(waypoints) = 2

\* C4: when two or more waypoints are within tolerance of a click, exactly
\* the one of smallest index is removed and the others stay.
C4_FirstMatchRemoved ==
    (lastOp.kind = "click" /\ Cardinality(Matches(prevWaypoints, ClickedAt)) >= 2) =>
        LET m == CHOOSE k \in Matches(prevWaypoints, ClickedAt) :
                    \A o \in Matches(prevWaypoints, ClickedAt) : k <= o
        IN  /\ waypoints = Without(prevWaypoints, m)
            /\ Cardinality(Matches(waypoints, ClickedAt))
                  = Cardinality(Matches(prevWaypoints, ClickedAt)) - 1

\* Two waypoints that are not next to each other in the list were both
\* within tolerance of the click.
C4_Witness ==
    /\ lastOp.kind = "click"
    /\ Cardinality(Matches(prevWaypoints, ClickedAt)) >= 2
    /\ \E k \in Matches(prevWaypoints, ClickedAt) :
           k + 1 \notin Matches(prevWaypoints, ClickedAt) /\ k < Len(prevWaypoints)
                /\ \E o \in Matches(prevWaypoints, ClickedAt) : o > k + 1

\* C5: undo on a non-empty list removes exactly the last element; on an
\* empty list it changes nothing and the page goes on; the length of the
\* list is never negative.
C5_UndoRemovesLast ==
    /\ Len(waypoints) >= 0
    /\ lastOp.kind = "undo" =>
          /\ page = "form" /\ toast = "none"
          /\ IF prevWaypoints = << >>
             THEN waypoints = << >>
             ELSE /\ Len(waypoints) = Len(prevWaypoints) - 1
                  /\ \A k \in 1..Len(waypoints) : waypoints[k] = prevWaypoints[k]

\* Undo has run on the empty list.
C5_Witness ==
    /\ lastOp.kind = "undo"
    /\ prevWaypoints = << >>
    /\ waypoints = << >>

\* C6: clear all can run whenever the editor is shown, leaves the empty
\* list whatever the list was, and so leaves it empty when run again.
C6_ClearEmpties ==
    /\ (page = "form" /\ mounted) => ENABLED clearAllWaypoints
    /\ lastOp.kind = "clear" => (waypoints = << >> /\ shown.count = 0)

\* Clear all has run on a list already empty.
C6_Witness ==
    /\ lastOp.kind = "clear"
    /\ prevWaypoints = << >>
    /\ waypoints = << >>

-----------------------------------------------------------------------------
(* Properties of the distance *)

\* The sum of the Haversine distances of the consecutive pairs of L, at
\* scale 1e6 (units of 1e-6 km).
RECURSIVE PairSum(_)
PairSum(L) ==
    IF Len(L) < 2 THEN 0
    ELSE PairSum(SubSeq(L, 1, Len(L) - 1)) + Haversine(L[Len(L) - 1], L[Len(L)])

\* The distance calculateDistance returns for L, at scale 1e6.
ReturnedDistance(L) == calculateDistance(L).centiKm * 10000

\* C7 as stated: the total distance of the list is the sum over its
\* consecutive pairs within 1e-6 km (for three waypoints A, B, C:
\* haversine(A, B) + haversine(B, C)), and 0 for fewer than two waypoints.
C7_DistanceWithinMicroKm ==
    /\ Len(waypoints) < 2 => ReturnedDistance(waypoints) = 0
    /\ Abs(ReturnedDistance(waypoints) - PairSum(waypoints)) <= 1
    /\ Len(waypoints) = 3 =>
          Abs(ReturnedDistance(waypoints)
                - (Haversine(waypoints[1], waypoints[2])
                     + Haversine(waypoints[2], waypoints[3]))) <= 1

\* C7 amended: calculateDistance returns that sum rounded to two decimals,
\* so it is within 0.005 km of the sum, and 0 for fewer than two waypoints.
C7_DistanceWithinRounding ==
    /\ Len(waypoints) < 2 => ReturnedDistance(waypoints) = 0
    /\ Abs(ReturnedDistance(waypoints) - PairSum(waypoints)) <= 5000
    /\ Len(waypoints) = 3 =>
          Abs(ReturnedDistance(waypoints)
                - (Haversine(waypoints[1], waypoints[2])
                     + Haversine(waypoints[2], waypoints[3]))) <= 5000

\* A route of three waypoints, each leg longer than a kilometre, whose
\* length is no whole number of hundredths of a km.
C7_Witness ==
    /\ mounted
    /\ Len(waypoints) = 3
    /\ Haversine(waypoints[1], waypoints[2]) > 1000000
    /\ Haversine(waypoints[2], waypoints[3]) > 1000000
    /\ PairSum(waypoints) % 10000 # 0

\* C8: whatever handlers have run, the distance and the count the editor
\* shows are those of the current list.
C8_ShownDistanceIsCurrent ==
    (page = "form" /\ mounted) =>
        /\ ~shown.loading
        /\ shown.count = Len(waypoints)
        /\ shown.distance = calculateDistance(waypoints)
        /\ Abs(shown.distance.centiKm * 10000 - PairSum(waypoints)) <= 5000

\* A handler has changed the distance of the route.
C8_Witness ==
    /\ page = "form" /\ mounted
    /\ lastOp.kind \in {"click", "undo", "clear"}
    /\ Len(prevWaypoints) >= 2
    /\ calculateDistance(prevWaypoints).centiKm > 0
    /\ calculateDistance(prevWaypoints) # calculateDistance(waypoints)
    /\ shown.distance # calculateDistance(prevWaypoints)

-----------------------------------------------------------------------------
(* Properties of the serialization *)

\* C9: the text written for a list is an object of type "LineString"
\* whose coordinates are, in the order of the list, the pairs
\* [longitude, latitude]; [{lat:1,lng:2},{lat:3,lng:4}] is written as
\* {"type":"LineString","coordinates":[[2,1],[4,3]]}.
C9_EncodeLonLatInOrder ==
    codec.phase \in {"encoded", "decoded", "failed"} =>
        LET r      == JsonParse(codec.text)
            coords == Member(r.v, "coordinates")
        IN  /\ r.ok
            /\ Member(r.v, "type") = JStr("LineString")
            /\ coords.t = "arr"
            /\ Len(coords.a) = Len(codec.input)
            /\ \A k \in 1..Len(codec.input) :
                  coords.a[k] = JArr(<<JNum(codec.input[k].lng),
                                       JNum(codec.input[k].lat)>>)
            /\ codec.input = <<Pt(100000, 200000), Pt(300000, 400000)>> =>
                  codec.text = <<"{", "\"type\"", ":", "\"LineString\"", ",",
                                 "\"coordinates\"", ":",
                                 "[", "[", "2", ",", "1", "]", ",",
                                      "[", "4", ",", "3", "]", "]", "}">>

\* The list of the example has been written.
C9_Witness ==
    /\ codec.phase = "encoded"
    /\ codec.input = <<Pt(100000, 200000), Pt(300000, 400000)>>
    /\ codec.text # << >>

\* C10: reading back the text written for a list gives that list.
C10_RoundTrip ==
    /\ codec.phase # "failed"
    /\ codec.phase = "decoded" => codec.output = codec.input

\* A list with a negative extreme and a small negative fraction has been
\* written and read back.
C10_Witness ==
    /\ codec.phase = "decoded"
    /\ Len(codec.input) = 2
    /\ codec.input[1] = Pt(-9000000, -18000000)
    /\ codec.input[2] = Pt(-1, 50000)

\* The empty list has been written and read back.
C10_WitnessEmpty ==
    /\ codec.phase = "decoded"
    /\ codec.input = << >>

-----------------------------------------------------------------------------
(* Properties of the save *)

RejectedToast == "Please add at least a start point on the map"

\* The list of the LineString a request carries.
RequestPath(req) == DecodePath(req.payload.geoJsonPath).value

\* C18: a submit on an empty waypoint list sends no POST or PUT, shows an
\* error and leaves the list, the form and the page as they were; a
\* request is in flight only for a list of at least one waypoint.
C18_EmptySubmitRejected ==
    /\ [](/\ (lastOp.kind = "submit" /\ prevWaypoints = << >>) =>
                 /\ request = NoRequest
                 /\ ~loading
                 /\ toast = RejectedToast
                 /\ waypoints = << >>
                 /\ page = "form"
          /\ (lastOp.kind = "submit" /\ request # NoRequest) => prevWaypoints # << >>
          /\ request # NoRequest =>
                 /\ request.method \in {"POST", "PUT"}
                 /\ Len(RequestPath(request)) >= 1)
    /\ [][(onSubmit /\ waypoints = << >>) =>
             /\ request' = request
             /\ waypoints' = waypoints
             /\ formData' = formData
             /\ loading' = loading
             /\ page' = page
             /\ toast' = RejectedToast]_vars

\* A form the schema accepts has been submitted with no waypoint.
C18_Witness ==
    /\ lastOp.kind = "submit"
    /\ prevWaypoints = << >>
    /\ SchemaAccepts(formData)
    /\ toast = RejectedToast

\* The start, end and line string of the payload are those of the list L.
PayloadGeometryOf(payload, L) ==
    /\ DecodePath(payload.geoJsonPath).set
    /\ DecodePath(payload.geoJsonPath).value = L
    /\ payload.startingPointLat = L[1].lat
    /\ payload.startingPointLon = L[1].lng
    /\ payload.endPointLat = L[Len(L)].lat
    /\ payload.endPointLon = L[Len(L)].lng
    /\ Len(L) = 1 => /\ payload.endPointLat = payload.startingPointLat
                     /\ payload.endPointLon = payload.startingPointLon

\* The distance calculateDistance returns for L, in units of 1e-5 km.
ComputedDistance(L) == calculateDistance(L).centiKm * 1000

\* C19 as stated: the request sent on submit carries the line string of
\* the current list, its first waypoint as start, its last as end, and
\* the total distance computed over the list.
C19_PayloadComputedDistance ==
    (lastOp.kind = "submit" /\ request # NoRequest) =>
        /\ PayloadGeometryOf(request.payload, waypoints)
        /\ request.payload.distanceKm = ComputedDistance(waypoints)

\* C19 amended: the distance of the payload is the number of the form's
\* "Distance (km)" field, whatever the list is.
C19_PayloadFormDistance ==
    (lastOp.kind = "submit" /\ request # NoRequest) =>
        /\ PayloadGeometryOf(request.payload, waypoints)
        /\ request.payload.distanceKm = formData.distanceKm

\* A list of three waypoints has been submitted with a distance field that
\* is not the distance of the list.
C19_Witness ==
    /\ lastOp.kind = "submit"
    /\ request # NoRequest
    /\ Len(waypoints) = 3
    /\ waypoints[1] # waypoints[3]
    /\ formData.distanceKm # ComputedDistance(waypoints)

\* A single waypoint has been submitted.
C19_WitnessSingle ==
    /\ lastOp.kind = "submit"
    /\ request # NoRequest
    /\ Len(waypoints) = 1

-----------------------------------------------------------------------------
(* Properties of SimpleMap *)

\* The effect has run its try block on the props the map now has.
DrewProps == map.phase = "idle" /\ map.drew

\* A pair [lon, lat] of numbers, maybe followed by more.
IsPosition(v) ==
    v.t = "arr" /\ Len(v.a) >= 2 /\ v.a[1].t = "num" /\ v.a[2].t = "num"

\* The text is a LineString: it parses to an object of type "LineString"
\* whose coordinates are an array of positions.
IsLineString(text) ==
    LET r == JsonParse(text)
        coords == Member(r.v, "coordinates")
    IN  /\ r.ok
        /\ r.v.t = "obj"
        /\ Member(r.v, "type") = JStr("LineString")
        /\ coords.t = "arr"
        /\ \A i \in 1..Len(coords.a) : IsPosition(coords.a[i])

\* C11: the decode of a geoJson text that is no LineString yields the
\* empty point list, lets no exception out of the component, and the
\* component shows a placeholder in place of the map.
C11_MalformedDecodesEmpty ==
    (DrewProps /\ map.props.geoJson # NoText /\ ~IsLineString(map.props.geoJson)) =>
        /\ map.last.geoJsonPoints = << >>
        /\ ~map.escaped
        /\ map.error # "none"
        /\ ~map.canvas

\* The last run of the effect has computed a box.
HasBox == map.last.allPoints # << >> /\ ~map.last.threw

\* Every point the box was computed from has numbers for coordinates.
AllNumeric ==
    \A i \in 1..Len(map.last.allPoints) :
        map.last.allPoints[i].lat.t = "num" /\ map.last.allPoints[i].lon.t = "num"

\* The route of the geoJson prop was decoded and is part of allPoints.
RoutePushed ==
    /\ Len(map.last.geoJsonPoints) >= 2
    /\ Len(map.last.allPoints)
          = 1 + Len(map.props.endPoint) + Len(map.props.points)
              + Len(map.last.geoJsonPoints)

\* C12: the box computed from a non-empty set of points (start point, end
\* point, points of interest, decoded route vertices) holds every point of
\* the set, has min <= max on both axes, and each of its four bounds is
\* the coordinate of some point of the set, also when all points are the
\* same.
C12_BoxEnclosesPoints ==
    (HasBox /\ AllNumeric) =>
        LET all == map.last.allPoints
            box == map.last.box
            I   == 1..Len(all)
        IN  /\ ~box.minLat.nan /\ ~box.maxLat.nan
            /\ ~box.minLon.nan /\ ~box.maxLon.nan
            /\ \A i \in I : /\ box.minLat.n <= all[i].lat.n
                             /\ all[i].lat.n <= box.maxLat.n
                             /\ box.minLon.n <= all[i].lon.n
                             /\ all[i].lon.n <= box.maxLon.n
            /\ box.minLat.n <= box.maxLat.n
            /\ box.minLon.n <= box.maxLon.n
            /\ \E i \in I : all[i].lat.n = box.minLat.n
            /\ \E i \in I : all[i].lat.n = box.maxLat.n
            /\ \E i \in I : all[i].lon.n = box.minLon.n
            /\ \E i \in I : all[i].lon.n = box.maxLon.n
            /\ all[1] = AsValues(map.props.startPoint)
            /\ \A k \in 1..Len(map.props.endPoint) :
                   \E i \in I : all[i] = AsValues(map.props.endPoint[k])
            /\ \A k \in 1..Len(map.props.points) :
                   \E i \in I : all[i] = AsValues(map.props.points[k])

\* A box of a start point, an end point, a point of interest and a route,
\* wide on both axes, the start point strictly between its bounds of
\* longitude and its largest longitude that of a route vertex alone.
C12_Witness ==
    /\ DrewProps /\ HasBox /\ AllNumeric /\ RoutePushed
    /\ map.props.endPoint # << >>
    /\ map.props.points # << >>
    /\ map.last.box.minLat.n < map.last.box.maxLat.n
    /\ map.last.box.minLon.n < map.props.startPoint.lon
    /\ map.props.startPoint.lon < map.last.box.maxLon.n
    /\ \A k \in 1..Len(map.props.endPoint) :
           map.props.endPoint[k].lon < map.last.box.maxLon.n
    /\ \A k \in 1..Len(map.props.points) :
           map.props.points[k].lon < map.last.box.maxLon.n

\* The pixel lies on the canvas: 0 <= x <= width and 0 <= y <= height.
InCanvas(px) ==
    /\ ~px.x.nan /\ ~px.y.nan
    /\ px.x.size = CanvasWidth /\ px.y.size = CanvasHeight
    /\ px.x.den > 0 /\ px.y.den > 0
    /\ 0 <= px.x.num /\ px.x.num <= px.x.den
    /\ 0 <= px.y.num /\ px.y.num <= px.y.den

\* Points inside the box: its corners, the middles of its sides, its middle.
BoxProbes(box) ==
    { MapPt(JNum(la), JNum(lo)) :
        la \in {box.minLat.n, (box.minLat.n + box.maxLat.n) \div 2, box.maxLat.n},
        lo \in {box.minLon.n, (box.minLon.n + box.maxLon.n) \div 2, box.maxLon.n} }

\* The points of the set and the probes of the box.
Projected == {map.last.allPoints[i] : i \in 1..Len(map.last.allPoints)}
                \cup BoxProbes(map.last.box)

\* C14: with the box of a point set and the padding 0.1, every point of
\* the set and every point inside the box projects onto the canvas.
C14_ProjectionInCanvas ==
    (HasBox /\ AllNumeric) =>
        /\ \A p \in Projected : InCanvas(ToCanvas(p.lat, p.lon, map.last.box))
        /\ \A k \in 1..Len(map.last.drawn) :
               (map.last.drawn[k].kind # "route" \/ RoutePushed)
                   => InCanvas(map.last.drawn[k].at)

\* A route and markers have been drawn with a box that is wide on both axes.
C14_Witness ==
    /\ DrewProps /\ HasBox /\ AllNumeric /\ RoutePushed
    /\ map.last.box.minLat.n < map.last.box.maxLat.n
    /\ map.last.box.minLon.n < map.last.box.maxLon.n
    /\ \E k \in 1..Len(map.last.drawn) : map.last.drawn[k].kind = "route"

\* All points of the set are the same point.
Degenerate ==
    /\ HasBox /\ AllNumeric
    /\ map.last.box.minLat.n = map.last.box.maxLat.n
    /\ map.last.box.minLon.n = map.last.box.maxLon.n

\* The pixel is finite and within a quarter of the width and of the
\* height of the canvas center: |x - W/2| <= W/4 and |y - H/2| <= H/4.
NearCenter(px) ==
    /\ ~px.x.nan /\ ~px.y.nan
    /\ px.x.den > 0 /\ px.y.den > 0
    /\ 2 * Abs(2 * px.x.num - px.x.den) <= px.x.den
    /\ 2 * Abs(2 * px.y.num - px.y.den) <= px.y.den

\* C15: when all points are the same, the projection is finite and the
\* point is drawn at or near the center of the canvas.
C15_SinglePointCentered ==
    Degenerate =>
        \A k \in 1..Len(map.last.drawn) : NearCenter(map.last.drawn[k].at)

\* C16: for a box and a canvas, x grows strictly with the longitude and y
\* falls strictly with the latitude: the point of greatest latitude has the
\* smallest y, the point of greatest longitude the greatest x.
C16_ProjectionOrientation ==
    (HasBox /\ AllNumeric) =>
        \A p, q \in Projected :
            LET a == ToCanvas(p.lat, p.lon, map.last.box)
                b == ToCanvas(q.lat, q.lon, map.last.box)
            IN  /\ ~a.x.nan /\ ~a.y.nan /\ ~b.x.nan /\ ~b.y.nan
                /\ a.x.den = b.x.den /\ a.y.den = b.y.den
                /\ a.x.den > 0 /\ a.y.den > 0
                /\ p.lon.n < q.lon.n => a.x.num < b.x.num
                /\ p.lat.n < q.lat.n => a.y.num > b.y.num
                /\ p.lat.n = map.last.box.maxLat.n => a.y.num <= b.y.num
                /\ p.lon.n = map.last.box.maxLon.n => a.x.num >= b.x.num

\* Two points of the set differ in latitude and in longitude.
C16_Witness ==
    /\ DrewProps /\ HasBox /\ AllNumeric
    /\ \E i, j \in 1..Len(map.last.allPoints) :
           /\ map.last.allPoints[i].lat.n < map.last.allPoints[j].lat.n
           /\ map.last.allPoints[i].lon.n # map.last.allPoints[j].lon.n

\* C17: an exception raised while the effect computes the bounds, projects
\* or draws is caught: the message "Failed to render map" is shown in
\* place of the canvas and no exception leaves the component.
C17_RenderFailureShowsPlaceholder ==
    /\ ~map.escaped
    /\ map.last.threw =>
          /\ map.error = "Failed to render map"
          /\ ~map.canvas
          /\ map.last.drawn = << >>
    /\ map.error # "none" => ~map.canvas

\* Math.min(...lats) has thrown on the points of the props and the route.
C17_Witness ==
    /\ DrewProps
    /\ map.last.threw
    /\ map.error = "Failed to render map"

-----------------------------------------------------------------------------
(* Properties of DashboardLayout *)

\* C20: when the token or the stored user is missing from local storage
\* as the layout mounts, the effect redirects to /login and the content of
\* the dashboard is not rendered; the content is rendered only after an
\* effect that found both; after logout neither token nor user is stored.
C20_UnauthenticatedRedirects ==
    /\ (auth.op.kind = "effect"
          /\ (auth.op.token = Absent \/ auth.op.storedUser = Absent)) =>
            /\ auth.location = "/login"
            /\ auth.phase = "login"
            /\ ~auth.content
            /\ auth.user.isNull
    /\ auth.phase = "mounted" => ~auth.content
    /\ (auth.content /\ auth.op.kind = "effect") =>
            (auth.op.token # Absent /\ auth.op.storedUser # Absent)
    /\ auth.op.kind = "logout" =>
            /\ auth.token = Absent
            /\ auth.storedUser = Absent
            /\ auth.location = "/login"

\* The layout has mounted with a token but no stored user.
C20_Witness ==
    /\ auth.op.kind = "effect"
    /\ auth.op.token = "jwt"
    /\ auth.op.storedUser = Absent
    /\ auth.location = "/login"

\* The user has logged out of a rendered dashboard.
C20_WitnessLogout ==
    /\ auth.op.kind = "logout"
    /\ auth.op.token = "jwt"

-----------------------------------------------------------------------------
(* Properties of the editor's list over its life *)

\* The paths a stored route can hold: the lists of one to MaxWaypoints
\* click positions.
StoredLists == ListsUpTo(ClickPoints, MaxWaypoints) \ {<< >>}

\* fetchParcoursData has just read the stored route.
FetchResolved == lastOp.kind = "fetch" /\ page = "form"

\* C22: on the create page the waypoint list is empty when the editor
\* mounts; on the edit page a stored LineString path gives the list of its
\* coordinates in stored order, and a stored route without a path gives
\* the stored start point followed by the stored end point when there is
\* one.
C22_InitialList ==
    /\ (~record.isEdit /\ lastOp.kind = "init") => waypoints = << >>
    /\ \A wps \in StoredLists :
           (FetchResolved /\ record = StoredPath(wps)) => waypoints = wps
    /\ \A s \in ClickPoints : \A e \in ListsUpTo(ClickPoints, 1) :
           (FetchResolved /\ record = StoredEnds(s, e)) => waypoints = <<s>> \o e

\* The edit page has read a stored path of three waypoints.
C22_Witness ==
    /\ FetchResolved
    /\ record = StoredPath(<<P1, P3, P4>>)
    /\ Len(waypoints) = 3

\* The edit page has read a stored route of a start and an end point.
C22_WitnessEnds ==
    /\ FetchResolved
    /\ record = StoredEnds(P5, <<P2>>)
    /\ Len(waypoints) = 2

\* The editor has mounted on the create page.
C22_WitnessCreate ==
    /\ ~record.isEdit /\ lastOp.kind = "init" /\ mounted

\* The editor is on the page and takes clicks.
EditorShown == page = "form" /\ mounted

\* C23: the editor has no terminal state: from every list it reaches,
\* Clear All is enabled and leads to the empty list; from the empty list a
\* click is enabled and adds a waypoint, from a list of one or two a click
\* on a waypoint is enabled and removes one; every click that was made
\* changed the list.  So clearing and refilling can go on for ever.
C23_NoTerminalState ==
    EditorShown =>
        /\ ENABLED (clearAllWaypoints /\ waypoints' = << >>)
        /\ waypoints = << >> =>
               \E c \in ClickPoints :
                   ENABLED (MapClickHandler(c.lat, c.lng) /\ Len(waypoints') = 1)
        /\ Len(waypoints) \in {1, 2} =>
               ENABLED (/\ MapClickHandler(waypoints[1].lat, waypoints[1].lng)
                        /\ Len(waypoints') = Len(waypoints) - 1)
        /\ lastOp.kind = "clear" => waypoints = << >>
        /\ lastOp.kind = "click" => /\ waypoints # prevWaypoints
                                    /\ Len(waypoints) # Len(prevWaypoints)

\* Clear All has emptied a list of the greatest length.
C23_Witness ==
    /\ EditorShown
    /\ lastOp.kind = "clear"
    /\ Len(prevWaypoints) = MaxWaypoints
    /\ waypoints = << >>

\* A click has put a first waypoint on a list that was empty.
C23_WitnessRefill ==
    /\ EditorShown
    /\ lastOp.kind = "click"
    /\ prevWaypoints = << >>
    /\ Len(waypoints) = 1

\* Two waypoints of the list L lie within the tolerance of each other.
HasNearPair(L) ==
    \E i, j \in 1..Len(L) : i # j /\ WithinTolerance(L[i], L[j])

\* C25: from the empty list, by clicks, Undo and Clear All only, the list
\* never holds two waypoints within the tolerance of each other.  (A list
\* read from a stored path can hold such a pair.)
C25_NoNearPairs == ~HasNearPair(waypoints)

\* A click has filled the list of the create page, two of whose waypoints
\* lie just beyond the tolerance of each other.
C25_Witness ==
    /\ ~record.isEdit
    /\ lastOp.kind = "click"
    /\ Len(waypoints) = MaxWaypoints
    /\ \E i, j \in 1..Len(waypoints) :
           i # j /\ NearWide(waypoints[i], waypoints[j].lat, waypoints[j].lng)

\* The edit page has read a stored path with two waypoints within the
\* tolerance of each other.
C25_StoredNearPair ==
    /\ record.isEdit
    /\ lastOp.kind = "fetch"
    /\ HasNearPair(waypoints)

\* The step is a click at the position of the click before it.
ClickRepeated ==
    /\ lastOp.kind = "click"
    /\ lastOp'.kind = "click"
    /\ lastOp'.lat = lastOp.lat
    /\ lastOp'.lng = lastOp.lng

\* C26: for a list L and a position c within tolerance of no waypoint of
\* L, a click at c followed by a second click at c gives exactly L: the
\* first click appends c, the second removes that waypoint and no other.
C26_ClickInvolution ==
    [][(ClickRepeated /\ Matches(prevWaypoints, ClickedAt) = {})
          => /\ waypoints = Append(prevWaypoints, ClickedAt)
             /\ waypoints' = prevWaypoints]_vars

\* The second of two clicks at a position away from the waypoints of a
\* list of two has removed the waypoint the first appended.
C26_Witness ==
    /\ ~record.isEdit
    /\ lastOp.kind = "click"
    /\ Len(prevWaypoints) = 3
    /\ lastOp.index = 2
    /\ prevWaypoints[3] = ClickedAt
    /\ Matches(waypoints, ClickedAt) = {}
    /\ waypoints = SubSeq(prevWaypoints, 1, 2)

\* The step is Undo, right after a click.
UndoAfterClick == lastOp.kind = "click" /\ lastOp'.kind = "undo"

\* C27 as stated: a click on the list L followed by Undo gives exactly L,
\* when the click appended a waypoint and when it removed one by proximity.
C27_UndoReversesClick ==
    [][UndoAfterClick => waypoints' = prevWaypoints]_vars

\* C27: a click on the list L that appended a waypoint, followed by Undo,
\* gives exactly L; a click that removed a waypoint by proximity, followed
\* by Undo, does not give L back: Undo takes the last of the waypoints the
\* click left (and leaves the empty list empty).
C27_UndoTakesLast ==
    [][UndoAfterClick =>
          IF Matches(prevWaypoints, ClickedAt) = {}
          THEN waypoints' = prevWaypoints
          ELSE /\ \E k \in 1..Len(prevWaypoints) :
                      waypoints = Without(prevWaypoints, k)
               /\ waypoints' = SubSeq(waypoints, 1, Len(waypoints) - 1)
               /\ waypoints' # prevWaypoints]_vars

\* A click has removed a waypoint of a list of three by proximity, and
\* Undo on the two it left gives a list of one.
C27_Witness ==
    /\ EditorShown
    /\ lastOp.kind = "click"
    /\ Matches(prevWaypoints, ClickedAt) # {}
    /\ Len(prevWaypoints) = 3
    /\ ENABLED (undoLastWaypoint /\ Len(waypoints') = 1)

\* A click has appended a second waypoint, and Undo gives back the list of
\* one it was made on.
C27_WitnessAppend ==
    /\ EditorShown
    /\ lastOp.kind = "click"
    /\ Matches(prevWaypoints, ClickedAt) = {}
    /\ Len(prevWaypoints) = 1
    /\ ENABLED (undoLastWaypoint /\ waypoints' = prevWaypoints)

-----------------------------------------------------------------------------
(* Properties of ServerDataTable and of the list page *)

\* The change of the input at position k was followed by another less
\* than 300 ms later.
Superseded(k) ==
    \E j \in (k + 1)..Len(search.keys) :
        search.keys[j].at - search.keys[k].at < DebounceUnits

\* C21: the search input is debounced: of changes made less than 300 ms
\* apart the earlier timeouts are cancelled, and onSearch is called once,
\* with the final value, 300 ms after the last change.
C21_SearchDebounced ==
    \A i \in 1..Len(search.calls) :
        LET c == search.calls[i]
        IN  /\ ~Superseded(c.key)
            /\ c.value = search.keys[c.key].value
            /\ c.at = search.keys[c.key].at + DebounceUnits
            /\ \A j \in 1..Len(search.calls) : search.calls[j].key = c.key => j = i

\* onSearch has been called with the value of a change that another
\* followed 100 ms later.
C21_StaleCall ==
    \E i \in 1..Len(search.calls) :
        /\ Superseded(search.calls[i].key)
        /\ search.keys[search.calls[i].key + 1].at
               = search.keys[search.calls[i].key].at + 1

-----------------------------------------------------------------------------
(* Properties of the page links *)

\* The positions of the links among the items shown.
LinkPositions == {k \in 1..Len(strip.items) : strip.items[k].kind = "link"}

\* C30: for totalPages >= 2 and currentPage in 1..totalPages, the links
\* SmartPagination and DataTablePagination render are strictly increasing
\* page numbers within 1..totalPages, among them page 1, page totalPages
\* and currentPage; exactly one link, that of currentPage, is active; an
\* ellipsis stands only between two links whose numbers skip a page;
\* Previous and Next ask for currentPage - 1 and currentPage + 1, and only
\* when hasPreviousPage, hasNextPage is true.
C30_PageStrip ==
    strip.phase = "shown" =>
        LET items == strip.items
            n     == Len(items)
        IN  /\ \A k \in LinkPositions : items[k].page \in 1..strip.totalPages
            /\ \A j, k \in LinkPositions : j < k => items[j].page < items[k].page
            /\ \E k \in LinkPositions : items[k].page = 1
            /\ \E k \in LinkPositions : items[k].page = strip.totalPages
            /\ \E k \in LinkPositions : items[k].page = strip.currentPage
            /\ \A k \in LinkPositions :
                   items[k].active <=> items[k].page = strip.currentPage
            /\ Cardinality({k \in LinkPositions : items[k].active}) = 1
            /\ \A k \in 1..n :
                   items[k].kind = "ellipsis" =>
                       /\ 1 < k /\ k < n
                       /\ items[k - 1].kind = "link"
                       /\ items[k + 1].kind = "link"
                       /\ items[k + 1].page - items[k - 1].page >= 2
            /\ strip.click.kind = "previous" =>
                   /\ strip.click.called = strip.hasPreviousPage
                   /\ strip.click.called => strip.click.page = strip.currentPage - 1
            /\ strip.click.kind = "next" =>
                   /\ strip.click.called = strip.hasNextPage
                   /\ strip.click.called => strip.click.page = strip.currentPage + 1

\* SmartPagination shows a middle page of a long list between two
\* ellipses, and Next has asked for the page after it.
C30_Witness ==
    /\ strip.phase = "shown"
    /\ strip.component = "SmartPagination"
    /\ strip.totalPages > SmartShowAll
    /\ Cardinality({k \in 1..Len(strip.items) : strip.items[k].kind = "ellipsis"}) = 2
    /\ strip.click.kind = "next"
    /\ strip.click.called

\* DataTablePagination shows the last page of a list of six after one
\* ellipsis, and Next, without a next page, has asked for nothing.
C30_WitnessDataTable ==
    /\ strip.phase = "shown"
    /\ strip.component = "DataTablePagination"
    /\ strip.totalPages = maxPagesToShow + 1
    /\ strip.currentPage = strip.totalPages
    /\ Cardinality({k \in 1..Len(strip.items) : strip.items[k].kind = "ellipsis"}) = 1
    /\ strip.click.kind = "next"
    /\ ~strip.click.called

\* The continuation of fetchParcours that ran last.
FetchSettledLast == list.phase = "page" /\ list.last.kind \in {"fetch-ok", "fetch-failed"}

\* C24: when a list request is rejected an error toast is raised, the rows
\* shown become empty and the pagination meta keeps the value it had; once
\* a request has settled, resolved or rejected, the loading flag is false.
C24_FetchFailure ==
    /\ FetchSettledLast => ~list.loading
    /\ (list.phase = "page" /\ list.last.kind = "fetch-failed") =>
           /\ list.toast = "Failed to fetch parcours"
           /\ list.parcours = NoRows
           /\ list.paginationMeta = list.last.metaBefore

\* A request is rejected after another had filled the table: rows and a
\* meta with pages were there to lose.
C24_Witness ==
    /\ list.phase = "page"
    /\ list.last.kind = "fetch-failed"
    /\ list.last.seq > 1
    /\ list.metaOf > 0
    /\ list.paginationMeta.totalPages > 0
    /\ list.parcours = NoRows
    /\ ~list.loading

\* C28: once every list request has settled, the rows and the pagination
\* meta shown are those of the request sent last, and the loading flag is
\* true at every moment a request is in flight.
C28_LastRequestWins ==
    list.phase = "page" =>
        /\ list.inflight # {} => list.loading
        /\ (list.inflight = {} /\ list.result = "ok") =>
               /\ list.rowsOf = list.issued
               /\ list.metaOf = list.issued

\* Two responses arrived in the reverse of the order of their requests,
\* both resolved: the table shows the older request's rows.
C28_StaleRows ==
    /\ list.phase = "page"
    /\ list.inflight = {}
    /\ list.result = "ok"
    /\ list.rowsOf > 0
    /\ list.rowsOf < list.issued
    /\ list.paginationMeta.limit # 10

\* A request is still in flight and the table has stopped showing
\* "Loading...".
C28_LoadingDropped ==
    /\ list.phase = "page"
    /\ list.inflight # {}
    /\ ~list.loading

-----------------------------------------------------------------------------
(* Properties of SimpleMap after an error *)

\* The props of the last render draw without an error.
PropsRender == Outcome(SimpleMapDraw(map.props)).error = "none"

C29_PlaceholderStays ==
    /\ map.phase = "idle"
    /\ ~map.drew
    /\ map.error = "Failed to render map"
    /\ ~map.canvas
    /\ PropsRender

====
